---- MODULE Spec2Model ----
(***************************************************************************)
(* Model of the submit_assignment tool (src/src/tools/submitAssignment.ts) *)
(* of INIAD-MOOCs-MCP: the operation sequencer, the upload coordinator,    *)
(* the dialog arbitration after the submit click and the result returned   *)
(* to the caller, and of the call-tool request handler of src/src/server.ts*)
(* that invokes it.  The page is an external collaborator: every call the  *)
(* handler issues to it is recorded in pageLog with its outcome.           *)
(* The login tool (src/src/tools/login.ts and its two other revisions) is  *)
(* modelled beside it; a request names one of the two tools, and the calls *)
(* of the login tool are recorded in loginLog.  SessionSpec runs            *)
(* browser_handle_dialog and a second submit_assignment call on the same   *)
(* session, AlertSpec a confirm_submission_alert call                      *)
(* (src/src/tools/confirmSubmissionAlert.ts) and ListSpec the ServerList   *)
(* of src/src/server.ts.                                                   *)
(*                                                                         *)
(* Strings the handler inspects (dialog messages, the expected phrases)    *)
(* are sequences of symbols, so trim() and includes() are computed as the  *)
(* JavaScript methods compute them.                                        *)
(***************************************************************************)
EXTENDS Integers, Sequences, FiniteSets, TLC

VARIABLES
    servers,             \* this._servers of a ServerList
    listLog,             \* create, close and closeAll calls on the ServerList
    apc,                 \* position of confirmSubmissionAlert.handle
    expectedText,        \* validatedParams.expected_text
    alertTimer,          \* the timer of setTimeout (line 45)
    alertListener,       \* the 'dialog' listener of page.once (line 69)
    handlerPc,           \* position of dialogHandler (lines 51-67)
    dialogOccurred,      \* let dialogOccurred
    alertDialog,         \* the dialog handed to dialogHandler
    alertLog,            \* accept and dismiss calls of dialogHandler
    alertResult,         \* the ToolResult of confirmSubmissionAlert.handle
    requestMethod,       \* the request: "tools/list" or "tools/call"
    vision,              \* options.vision of createServer
    capabilities,        \* options.capabilities of createServer
    listed,              \* the tool names the ListTools handler returned
    hdPc,                \* position of a browser_handle_dialog call on the session
    hdAccept,            \* its accept parameter
    hdDialog,            \* const dialog of handleDialog.handle
    hdResult,            \* its ToolResult
    otherPc,             \* position of a second submit_assignment run
    otherPendingDialog,  \* const pendingDialog of the second run
    otherResult,         \* the ToolResult of the second run
    sessionLog,          \* accept/dismiss calls of those two, in order
    owners,              \* which run's submit click raised which dialog
    toolName,            \* request.params.name: the tool the request names
    loginVariant,        \* which revision of loginTool.handle is running
    hasUsername,         \* process.env.INIAD_USERNAME is a non-empty string
    hasPassword,         \* process.env.INIAD_PASSWORD is a non-empty string
    alreadyAuthenticated,\* the browser session was authenticated before the call
    site,                \* the page the login tab shows
    lpc,                 \* position of loginTool.handle
    loginLog,            \* every call loginTool.handle issued, in order
    loginResult,         \* the ToolResult of loginTool.handle
    paramsValid,         \* the schema of the tool called accepts params
    hasTab,              \* the context has a current tab
    stale,               \* the page advanced past the form after the snapshot
    exception,           \* the error thrown out of the handler, "" if none
    ops,                 \* validatedParams.operations
    submitButtonRef,     \* validatedParams.submitButtonRef
    hasSnapshot,         \* tab.lastSnapshot() is defined
    pc,                  \* position of the handler
    i,                   \* index of the operation the for-loop is at (1-based)
    performedActions,    \* const performedActions: string[]
    dialogErrorDetected, \* let dialogErrorDetected
    pendingDialog,       \* const pendingDialog (local, read at line 130)
    tabPendingDialog,    \* (tab as any).pendingDialog, the register
    dialogsRaised,       \* number of dialogs the page has raised so far
    listener,            \* state of the one-shot 'filechooser' listener
    syncFiredAt,         \* operations whose file chooser fired with the click
    pageLog,             \* every call issued to the page, in order
    failedAt,            \* index of the operation that threw, 0 if none
    result               \* the ToolResult returned, NoResult before that

vars == <<servers, listLog,
          apc, expectedText, alertTimer, alertListener, handlerPc,
          dialogOccurred, alertDialog, alertLog, alertResult,
          requestMethod, vision, capabilities, listed,
          hdPc, hdAccept, hdDialog, hdResult, otherPc, otherPendingDialog,
          otherResult, sessionLog, owners,
          toolName, loginVariant, hasUsername, hasPassword, alreadyAuthenticated,
          site, lpc, loginLog, loginResult,
          paramsValid, hasTab, stale, exception, ops, submitButtonRef, hasSnapshot, pc, i, performedActions,
          dialogErrorDetected, pendingDialog, tabPendingDialog, dialogsRaised,
          listener, syncFiredAt, pageLog, failedAt, result>>

-----------------------------------------------------------------------------
(* Bounds *)

MaxOps == 2

MaxDialogs == 2

MaxServers == 3

MaxListOps == 5

-----------------------------------------------------------------------------
(* Values, operations and the page snapshot *)

\* operation.value: undefined, a string or an array of strings
Undefined == [t |-> "undefined", str |-> "", arr |-> <<>>]

Str(x) == [t |-> "string", str |-> x, arr |-> <<>>]

Arr(xs) == [t |-> "array", str |-> "", arr |-> xs]

Values == { Undefined, Str("/a"), Str(""), Arr(<<>>), Arr(<<"/a", "b">>) }

Refs == {"r1", "rX"}

\* References the captured snapshot resolves to a live element.
Resolvable == {"r1"}

Operation(a, r, v, e) == [action |-> a, ref |-> r, value |-> v, element |-> e]

\* The operations requests are built from: every action with each value
\* shape its validation distinguishes, and an unresolvable reference.
OperationUniverse ==
    { Operation("type", "r1", v, "") : v \in {Str("/a"), Undefined} }
    \cup { Operation("click", "r1", v, "") : v \in {Undefined, Str("/a")} }
    \cup { Operation("click", "rX", Undefined, "") }
    \cup { Operation("check", "r1", Undefined, "box") }
    \cup { Operation("uncheck", "r1", Undefined, "") }
    \cup { Operation("select", "r1", v, "") : v \in {Str("/a"), Arr(<<"/a", "b">>), Undefined} }
    \cup { Operation("upload", "r1", v, "") : v \in Values }

SeqsUpTo(S, n) == UNION { [1..k -> S] : k \in 0..n }

-----------------------------------------------------------------------------
(* Strings as sequences of symbols *)

Whitespace == {"sp", "nl"}

expectedJP == <<"J1", "J2">>

expectedEN == <<"E1", "E2">>

RECURSIVE TrimStart(_)
TrimStart(s) ==
    IF s # <<>> /\ Head(s) \in Whitespace THEN TrimStart(Tail(s)) ELSE s

RECURSIVE TrimEnd(_)
TrimEnd(s) ==
    IF s # <<>> /\ s[Len(s)] \in Whitespace
    THEN TrimEnd(SubSeq(s, 1, Len(s) - 1))
    ELSE s

\* String.prototype.trim
Trim(s) == TrimEnd(TrimStart(s))

\* String.prototype.includes
Includes(s, needle) ==
    \E k \in 1..(Len(s) - Len(needle) + 1) :
        SubSeq(s, k, k + Len(needle) - 1) = needle

\* Messages the page's dialogs carry.
Messages ==
    { expectedEN,
      expectedJP,
      <<"sp", "x">> \o expectedEN \o <<"nl">>,
      <<"e1", "e2">>,
      <<"E1", "x", "E2">> }

NoDialog == [id |-> 0, msg |-> <<>>]

NoResult == [isError |-> FALSE, kind |-> "none", error |-> "", lines |-> <<>>]

NoHdResult == [isError |-> FALSE, text |-> "none"]

NoAlertResult == [isError |-> FALSE, text |-> "none"]

-----------------------------------------------------------------------------
(* Helpers of the handler *)

\* const elementName = operation.element || `element with ref ${operation.ref}`
elementName(op) ==
    IF op.element # "" THEN <<op.element>> ELSE <<"element with ref", op.ref>>

\* validatedParams.submitButtonElement || `Submit button (ref: ...)`
submitButtonName == <<"Submit button (ref)", submitButtonRef>>

\* One entry of performedActions.
Line(kind, name, arg) == [kind |-> kind, name |-> name, arg |-> arg]

\* One call issued to the page (a locator, the file chooser or the dialog).
\* idx is the position of the step in the run: the operation's index, then
\* the submit click, then the dialog.
Call(method, ref, arg, idx, ok) ==
    [call |-> method, ref |-> ref, arg |-> arg, idx |-> idx, ok |-> ok,
     dlg |-> 0]

DialogCall(method, dialog, idx, ok) ==
    [call |-> method, ref |-> "dialog", arg |-> dialog.msg, idx |-> idx,
     ok |-> ok, dlg |-> dialog.id]

NoDialogLine == Line("Error: No confirmation dialog appeared", <<>>, <<>>)

SubmitIdx == Len(ops) + 1

DialogIdx == Len(ops) + 2

\* The value checks of the switch: the error thrown, "" when the value passes.
ValueError(op) ==
    CASE op.action = "type" ->
            IF op.value.t # "string" THEN "InvalidType" ELSE ""
      [] op.action = "select" ->
            IF op.value.t # "array" /\ op.value.t # "string"
            THEN "InvalidSelect" ELSE ""
      [] op.action = "upload" ->
            \* !operation.value: undefined and '' are falsy, [] is truthy
            IF op.value.t = "undefined" \/ op.value = Str("")
            THEN "InvalidUpload" ELSE ""
      [] OTHER -> ""

\* Array.isArray(operation.value) ? operation.value : [operation.value]
AsArray(v) == IF v.t = "array" THEN v.arr ELSE <<v.str>>

\* Mutant: only the first path of the caller's list is kept.
filePaths_firstOnly(op) ==
    IF op.value.t = "array" /\ op.value.arr # <<>>
    THEN <<op.value.arr[1]>>
    ELSE AsArray(op.value)

\* const filePaths (line 98)
filePaths(op) == AsArray(op.value)

\* The locator method each action calls and the argument it passes.
Method(op) ==
    CASE op.action = "type" -> "fill"
      [] op.action = "click" -> "click"
      [] op.action = "check" -> "check"
      [] op.action = "uncheck" -> "uncheck"
      [] op.action = "select" -> "selectOption"
      [] OTHER -> "click"

Argument(op) ==
    CASE op.action = "type" -> <<op.value.str>>
      [] op.action = "select" -> AsArray(op.value)
      [] OTHER -> <<>>

\* The line pushed after a successful action other than upload.
OpLine(op) ==
    CASE op.action = "type" -> Line("Typed", elementName(op), <<op.value.str>>)
      [] op.action = "click" -> Line("Clicked", elementName(op), <<>>)
      [] op.action = "check" -> Line("Checked", elementName(op), <<>>)
      [] op.action = "uncheck" -> Line("Unchecked", elementName(op), <<>>)
      [] OTHER -> Line("Selected option(s)", elementName(op), <<>>)

\* The reference still denotes an element of the page.
Resolves(ref) == ~stale /\ ref \in Resolvable

\* Outcomes a call on a locator can have: it fails when the reference does
\* not resolve, and the page may reject it when it does.
Outcomes(ref) == IF Resolves(ref) THEN BOOLEAN ELSE {FALSE}

\* Mutant: only the English phrase is recognised.
Unexpected_onlyEN(dialogMessage) ==
    ~Includes(Trim(dialogMessage), expectedEN)

\* !includes(expectedJP) && !includes(expectedEN) on the trimmed message
Unexpected(dialogMessage) ==
    LET normalizedMessage == Trim(dialogMessage)
    IN  ~Includes(normalizedMessage, expectedJP)
        /\ ~Includes(normalizedMessage, expectedEN)

\* Mutant: the finally block leaves the register as it is.
RegisterAfterArbitration_kept == tabPendingDialog

\* finally { (tab as any).pendingDialog = undefined; }
RegisterAfterArbitration == NoDialog

\* Mutant: the listener is not registered before the click.
WaitForEvent_notArmed == "none"

\* page.waitForEvent('filechooser', { timeout: 5000 }) registers the listener
WaitForEvent == "armed"

\* schema.name of the two tools
SubmitName == "submit_assignment"

LoginName == "loginToIniadMoocsWithIniadAccount"

ToolNames == {SubmitName, LoginName}

\* The revisions of loginTool.handle the repository holds
LoginVariants == {"login.ts", "part_004", "part_006"}

NoLoginResult == [isError |-> FALSE, text |-> "none"]

\* The ServerList of server.ts.
listVars == <<servers, listLog>>

\* The state of a confirm_submission_alert call.
alertVars == <<apc, expectedText, alertTimer, alertListener, handlerPc,
               dialogOccurred, alertDialog, alertLog, alertResult>>

\* The server's options and tool list, fixed once the server is created, and
\* the answer to a ListTools request.
serverVars == <<requestMethod, vision, capabilities, listed>>

\* The state of the other calls running on the same session.
sessionVars == <<hdPc, hdAccept, hdDialog, hdResult, otherPc,
                 otherPendingDialog, otherResult, sessionLog, owners>>

\* The state of the login tool, which submit_assignment never touches.
loginVars == <<toolName, loginVariant, hasUsername, hasPassword,
               alreadyAuthenticated, site, lpc, loginLog, loginResult>>

\* The part of the state the steps inside the handler's try block leave alone.
callVars == <<paramsValid, hasTab, stale, exception>>

\* A dialog that was accepted or dismissed: the browser has closed it.
Consumed(dialog) ==
    \/ \E c \in 1..Len(pageLog) :
           pageLog[c].call = "accept" /\ pageLog[c].dlg = dialog.id /\ pageLog[c].ok
    \/ \E c \in 1..Len(sessionLog) :
           sessionLog[c].dlg = dialog.id /\ sessionLog[c].ok

\* dialog.accept() and dialog.dismiss() reject on a dialog that is already
\* handled; otherwise the page decides.
AcceptOutcomes(dialog) == IF Consumed(dialog) THEN {FALSE} ELSE BOOLEAN

\* Mutant: an operation's error is swallowed and the loop goes on.
Throw_swallowed(err, k) ==
    IF k > 0
    THEN /\ pc' = "loop"
         /\ i' = i + 1
         /\ failedAt' = k
         /\ result' = result
    ELSE /\ pc' = "done"
         /\ i' = i
         /\ failedAt' = k
         /\ result' = [isError |-> TRUE, kind |-> "error", error |-> err,
                       lines |-> <<>>]

\* Mutant: the catch block returns without the error flag.
Throw_notFlagged(err, k) ==
    /\ pc' = "done"
    /\ i' = i
    /\ failedAt' = k
    /\ result' = [isError |-> FALSE, kind |-> "error", error |-> err,
                  lines |-> <<>>]

\* catch (error): the run ends with the error text alone.  k is the index of
\* the operation that threw (0 when the throw is not inside an operation).
Throw(err, k) ==
    /\ pc' = "done"
    /\ i' = i
    /\ failedAt' = k
    /\ result' = [isError |-> TRUE, kind |-> "error", error |-> err,
                  lines |-> <<>>]

\* Mutant: the status is returned without the error flag.
Return_noFlag(isError, lines) ==
    /\ pc' = "done"
    /\ result' = [isError |-> FALSE, kind |-> "status", error |-> "",
                  lines |-> lines]

\* return { content: [statusMessage], isError: dialogErrorDetected }
Return(isError, lines) ==
    /\ pc' = "done"
    /\ result' = [isError |-> isError, kind |-> "status", error |-> "",
                  lines |-> lines]

-----------------------------------------------------------------------------
(* The tool lists of src/index (src/unnamed/part_005) and createServer *)

Tool(n, c) == [name |-> n, capability |-> c]

\* tools/common: export default [close, wait]
common == << Tool("browser_close", "core"), Tool("browser_wait", "wait") >>

\* tools/navigate: export default [navigate, goBack, goForward]
navigate ==
    << Tool("browser_navigate", "core"),
       Tool("browser_navigate_back", "history"),
       Tool("browser_navigate_forward", "history") >>

\* tools/snapshot (not among the sources): the snapshot tool
snapshot == << Tool("browser_snapshot", "core") >>

\* tools/tabs (not among the sources): the four tab tools
tabs ==
    << Tool("browser_tab_list", "tabs"), Tool("browser_tab_new", "tabs"),
       Tool("browser_tab_select", "tabs"), Tool("browser_tab_close", "tabs") >>

login == << Tool("loginToIniadMoocsWithIniadAccount", "core") >>

listLectures == << Tool("listLectureLinks", "core") >>

listSlides == << Tool("listSlideLinks", "core") >>

listCourses == << Tool("listCourses", "core") >>

submitAssignment == << Tool("submit_assignment", "core") >>

handleDialog == << Tool("browser_handle_dialog", "core") >>

snapshotTools ==
    common \o navigate \o snapshot \o tabs \o login \o listLectures
        \o listSlides \o listCourses \o submitAssignment \o handleDialog

screenshotTools ==
    common \o navigate \o tabs \o login \o listLectures \o listSlides
        \o listCourses \o submitAssignment \o handleDialog

\* The capabilities a tool of the lists can have
ToolCapability == {"core", "tabs", "wait", "history"}

\* options.capabilities: undefined, or a list of capabilities
NoFilter == [defined |-> FALSE, list |-> {}]

CapabilityOptions ==
    {NoFilter} \cup { [defined |-> TRUE, list |-> S] : S \in SUBSET ToolCapability }

\* Mutant: the filter is not applied.
Keeps_all(caps, tool) == tool.capability \in ToolCapability

\* !options?.capabilities || tool.capability === 'core'
\*     || options.capabilities.includes(tool.capability)
Keeps(caps, tool) ==
    \/ ~caps.defined
    \/ tool.capability = "core"
    \/ tool.capability \in caps.list

\* const allTools = options?.vision ? screenshotTools : snapshotTools
allTools(v) == IF v THEN screenshotTools ELSE snapshotTools

createServer(v, caps) ==
    LET keep(tool) == Keeps(caps, tool)
    IN  SelectSeq(allTools(v), keep)

\* The tools the server was created with: createServerWithTools closes over
\* them and no handler changes them.
tools == createServer(vision, capabilities)

NotListed == [done |-> FALSE, names |-> {}]

Names(ts) == { ts[k].name : k \in DOMAIN ts }

-----------------------------------------------------------------------------
(* Initial states: a request, a tab with or without a snapshot *)

Init ==
    \* no ServerList call and no confirm_submission_alert call is made
    /\ servers = <<>>
    /\ listLog = <<>>
    /\ apc = "idle"
    /\ expectedText = <<>>
    /\ alertTimer = "none"
    /\ alertListener = "none"
    /\ handlerPc = "none"
    /\ dialogOccurred = FALSE
    /\ alertDialog = NoDialog
    /\ alertLog = <<>>
    /\ alertResult = NoAlertResult
    /\ requestMethod \in {"tools/call", "tools/list"}
    \* the server: its options are varied for the ListTools request
    /\ vision \in IF requestMethod = "tools/list" THEN BOOLEAN ELSE {FALSE}
    /\ capabilities \in IF requestMethod = "tools/list" THEN CapabilityOptions
                        ELSE {NoFilter}
    /\ listed = NotListed
    \* no other call runs on the session
    /\ hdPc = "idle"
    /\ hdAccept = FALSE
    /\ hdDialog = NoDialog
    /\ hdResult = NoHdResult
    /\ otherPc = "idle"
    /\ otherPendingDialog = NoDialog
    /\ otherResult = NoResult
    /\ sessionLog = <<>>
    /\ owners = {}
    /\ toolName \in IF requestMethod = "tools/call" THEN ToolNames ELSE {"none"}
    \* the login tool: its environment and the browser session it meets
    /\ loginVariant \in IF toolName = LoginName THEN LoginVariants ELSE {"login.ts"}
    /\ hasUsername \in IF toolName = LoginName THEN BOOLEAN ELSE {FALSE}
    /\ hasPassword \in IF toolName = LoginName THEN BOOLEAN ELSE {FALSE}
    /\ alreadyAuthenticated \in IF toolName = LoginName THEN BOOLEAN ELSE {FALSE}
    /\ site = "blank"
    /\ lpc = IF toolName = LoginName THEN "start" ELSE "idle"
    /\ loginLog = <<>>
    /\ loginResult = NoLoginResult
    \* submit_assignment: its request and its tab
    /\ paramsValid \in IF toolName = SubmitName THEN BOOLEAN ELSE {FALSE}
    /\ hasTab \in IF toolName = SubmitName THEN BOOLEAN ELSE {FALSE}
    /\ stale = FALSE
    /\ exception = ""
    \* params the schema rejects yield no validated operations
    /\ ops \in IF paramsValid THEN SeqsUpTo(OperationUniverse, MaxOps) ELSE {<<>>}
    /\ submitButtonRef \in IF paramsValid THEN Refs ELSE {"rX"}
    \* a snapshot belongs to a tab
    /\ hasSnapshot \in IF hasTab THEN BOOLEAN ELSE {FALSE}
    /\ pc = IF toolName = SubmitName THEN "start" ELSE "idle"
    /\ i = 1
    /\ performedActions = <<>>
    /\ dialogErrorDetected = FALSE
    /\ pendingDialog = NoDialog
    /\ tabPendingDialog = NoDialog
    /\ dialogsRaised = 0
    /\ listener = "none"
    /\ syncFiredAt = {}
    /\ pageLog = <<>>
    /\ failedAt = 0
    /\ result = NoResult

-----------------------------------------------------------------------------
(* The page raises a dialog: the tab stores it, overwriting the register *)

DialogEvent ==
    \E m \in Messages :
        /\ hasTab
        /\ dialogsRaised < MaxDialogs
        /\ dialogsRaised' = dialogsRaised + 1
        /\ tabPendingDialog' = [id |-> dialogsRaised + 1, msg |-> m]
        /\ UNCHANGED <<sessionVars, alertVars, listVars, serverVars, loginVars, callVars, ops, submitButtonRef, hasSnapshot, pc, i,
                       performedActions, dialogErrorDetected, pendingDialog,
                       listener, syncFiredAt, pageLog, failedAt, result>>

-----------------------------------------------------------------------------
(* submitAssignment.handle *)

\* Lines 50-52, before the try block: an error thrown here leaves the handler.
Escape(err) ==
    /\ pc' = "thrown"
    /\ exception' = err
    /\ UNCHANGED <<i, failedAt, result>>

\* Mutant: the check for a snapshot is missing.
Handle_noSnapshotCheck ==
    /\ pc = "start"
    /\ IF ~paramsValid THEN Escape("ZodError")
       ELSE IF ~hasTab THEN Escape("NoTab")
       ELSE /\ pc' = "loop"
            /\ UNCHANGED <<exception, i, failedAt, result>>
    /\ UNCHANGED <<sessionVars, alertVars, listVars, serverVars, loginVars, paramsValid, hasTab, stale, ops, submitButtonRef,
                   hasSnapshot, performedActions,
                   dialogErrorDetected, pendingDialog, tabPendingDialog,
                   dialogsRaised, listener, syncFiredAt, pageLog>>

\* Mutant: a request without operations is rejected.
Handle_rejectsEmpty ==
    /\ pc = "start"
    /\ IF ~paramsValid THEN Escape("ZodError")
       ELSE IF ~hasTab THEN Escape("NoTab")
       ELSE IF hasSnapshot /\ ops # <<>>
       THEN /\ pc' = "loop"
            /\ UNCHANGED <<exception, i, failedAt, result>>
       ELSE /\ Throw("NoSnapshot", 0)
            /\ UNCHANGED exception
    /\ UNCHANGED <<sessionVars, alertVars, listVars, serverVars, loginVars, paramsValid, hasTab, stale, ops, submitButtonRef,
                   hasSnapshot, performedActions,
                   dialogErrorDetected, pendingDialog, tabPendingDialog,
                   dialogsRaised, listener, syncFiredAt, pageLog>>

\* Lines 49-60: the parse of the parameters and the current tab, then the
\* snapshot check that opens the try block.
Handle ==
    /\ pc = "start"
    /\ IF ~paramsValid THEN Escape("ZodError")
       ELSE IF ~hasTab THEN Escape("NoTab")
       ELSE IF hasSnapshot
       THEN /\ pc' = "loop"
            /\ UNCHANGED <<exception, i, failedAt, result>>
       ELSE /\ Throw("NoSnapshot", 0)
            /\ UNCHANGED exception
    /\ UNCHANGED <<sessionVars, alertVars, listVars, serverVars, loginVars, paramsValid, hasTab, stale, ops, submitButtonRef,
                   hasSnapshot, performedActions,
                   dialogErrorDetected, pendingDialog, tabPendingDialog,
                   dialogsRaised, listener, syncFiredAt, pageLog>>

\* Mutant: when an operation fails, the handler undoes the operation before
\* it by clearing that element.
ApplyOperation_compensates ==
    /\ pc = "loop"
    /\ i <= Len(ops)
    /\ ops[i].action # "upload"
    /\ LET op == ops[i] IN
       IF ValueError(op) # ""
       THEN /\ Throw(ValueError(op), i)
            /\ UNCHANGED performedActions
            /\ pageLog' = IF i > 1
                           THEN Append(pageLog,
                                    Call("clear", ops[i - 1].ref, <<>>, i - 1, TRUE))
                           ELSE pageLog
       ELSE \E ok \in Outcomes(op.ref) :
              /\ IF ok
                 THEN /\ pageLog' = Append(pageLog,
                             Call(Method(op), op.ref, Argument(op), i, ok))
                      /\ performedActions' = Append(performedActions, OpLine(op))
                      /\ i' = i + 1
                      /\ UNCHANGED <<pc, failedAt, result>>
                 ELSE /\ pageLog' =
                             IF i > 1
                             THEN pageLog \o
                                  << Call(Method(op), op.ref, Argument(op), i, ok),
                                     Call("clear", ops[i - 1].ref, <<>>, i - 1, TRUE) >>
                             ELSE Append(pageLog,
                                      Call(Method(op), op.ref, Argument(op), i, ok))
                      /\ Throw("PageError", i)
                      /\ UNCHANGED performedActions
    /\ UNCHANGED <<sessionVars, alertVars, listVars, serverVars, loginVars, callVars, ops, submitButtonRef, hasSnapshot, dialogErrorDetected,
                   pendingDialog, tabPendingDialog, dialogsRaised, listener,
                   syncFiredAt>>

\* Lines 62-93: one iteration of the loop for type, click, check, uncheck
\* and select.
ApplyOperation ==
    /\ pc = "loop"
    /\ i <= Len(ops)
    /\ ops[i].action # "upload"
    /\ LET op == ops[i] IN
       IF ValueError(op) # ""
       THEN /\ Throw(ValueError(op), i)
            /\ UNCHANGED <<performedActions, pageLog>>
       ELSE \E ok \in Outcomes(op.ref) :
              /\ pageLog' = Append(pageLog,
                     Call(Method(op), op.ref, Argument(op), i, ok))
              /\ IF ok
                 THEN /\ performedActions' = Append(performedActions, OpLine(op))
                      /\ i' = i + 1
                      /\ UNCHANGED <<pc, failedAt, result>>
                 ELSE /\ Throw("PageError", i)
                      /\ UNCHANGED performedActions
    /\ UNCHANGED <<sessionVars, alertVars, listVars, serverVars, loginVars, callVars, ops, submitButtonRef, hasSnapshot, dialogErrorDetected,
                   pendingDialog, tabPendingDialog, dialogsRaised, listener,
                   syncFiredAt>>

\* Lines 94-104: the value check of an upload and the arming of the listener.
UploadArm ==
    /\ pc = "loop"
    /\ i <= Len(ops)
    /\ ops[i].action = "upload"
    /\ IF ValueError(ops[i]) # ""
       THEN /\ Throw(ValueError(ops[i]), i)
            /\ UNCHANGED listener
       ELSE /\ listener' = WaitForEvent
            /\ pc' = "upl_click"
            /\ UNCHANGED <<i, failedAt, result>>
    /\ UNCHANGED <<sessionVars, alertVars, listVars, serverVars, loginVars, callVars, ops, submitButtonRef, hasSnapshot, performedActions,
                   dialogErrorDetected, pendingDialog, tabPendingDialog,
                   dialogsRaised, syncFiredAt, pageLog>>

\* Mutant: the handler does not await the file chooser and goes on to the
\* next operation as soon as the click returned.
UploadClick_noAwait ==
    /\ pc = "upl_click"
    /\ \E ok \in Outcomes(ops[i].ref) :
         /\ pageLog' = Append(pageLog, Call("click", ops[i].ref, <<>>, i, ok))
         /\ IF ok
            THEN /\ performedActions' = Append(performedActions,
                        Line("Clicked upload trigger", elementName(ops[i]), <<>>))
                 /\ pc' = "loop"
                 /\ i' = i + 1
                 /\ UNCHANGED <<failedAt, result>>
            ELSE /\ Throw("PageError", i)
                 /\ UNCHANGED performedActions
    /\ UNCHANGED <<sessionVars, alertVars, listVars, serverVars, loginVars, callVars, ops, submitButtonRef, hasSnapshot, dialogErrorDetected,
                   pendingDialog, tabPendingDialog, dialogsRaised, listener,
                   syncFiredAt>>

\* Lines 106-107: the click on the upload control.  The page may fire the
\* file chooser event in the same step as the click (sync).
UploadClick ==
    /\ pc = "upl_click"
    /\ \E ok \in Outcomes(ops[i].ref), sync \in BOOLEAN :
         /\ pageLog' = Append(pageLog, Call("click", ops[i].ref, <<>>, i, ok))
         /\ IF ok
            THEN /\ performedActions' = Append(performedActions,
                        Line("Clicked upload trigger", elementName(ops[i]), <<>>))
                 /\ pc' = "upl_await"
                 /\ listener' = IF sync /\ listener = "armed"
                                THEN "received" ELSE listener
                 /\ syncFiredAt' = IF sync THEN syncFiredAt \cup {i}
                                   ELSE syncFiredAt
                 /\ UNCHANGED <<i, failedAt, result>>
            ELSE /\ sync = FALSE
                 /\ Throw("PageError", i)
                 /\ UNCHANGED <<performedActions, listener, syncFiredAt>>
    /\ UNCHANGED <<sessionVars, alertVars, listVars, serverVars, loginVars, callVars, ops, submitButtonRef, hasSnapshot, dialogErrorDetected,
                   pendingDialog, tabPendingDialog, dialogsRaised>>

\* The page fires the file chooser event after the click returned.
FileChooserEvent ==
    /\ pc = "upl_await"
    /\ listener = "armed"
    /\ i \notin syncFiredAt
    /\ listener' = "received"
    /\ UNCHANGED <<sessionVars, alertVars, listVars, serverVars, loginVars, callVars, ops, submitButtonRef, hasSnapshot, pc, i, performedActions,
                   dialogErrorDetected, pendingDialog, tabPendingDialog,
                   dialogsRaised, syncFiredAt, pageLog, failedAt, result>>

\* Mutant: waitForEvent is called without a timeout and never rejects.
FileChooserTimeout_never ==
    /\ listener = "armed"
    /\ FALSE
    /\ UNCHANGED vars

\* The 5000 ms of waitForEvent elapse with no event: the promise rejects.
\* The click is issued in the turn that armed the listener, so the timer
\* expires after the click was attempted.
FileChooserTimeout ==
    /\ listener = "armed"
    /\ pc # "upl_click"
    /\ listener' = "rejected"
    /\ UNCHANGED <<sessionVars, alertVars, listVars, serverVars, loginVars, callVars, ops, submitButtonRef, hasSnapshot, pc, i, performedActions,
                   dialogErrorDetected, pendingDialog, tabPendingDialog,
                   dialogsRaised, syncFiredAt, pageLog, failedAt, result>>

\* Mutant: the rejection of waitForEvent is thrown as it is, without the
\* 'did not appear' error of the catch handler of line 104.
UploadAwaitRejected_generic ==
    /\ pc = "upl_await"
    /\ listener = "rejected"
    /\ listener' = "none"
    /\ Throw("PageError", i)
    /\ UNCHANGED <<sessionVars, alertVars, listVars, serverVars, loginVars, callVars, ops, submitButtonRef, hasSnapshot, performedActions,
                   dialogErrorDetected, pendingDialog, tabPendingDialog,
                   dialogsRaised, syncFiredAt, pageLog>>

\* Line 109 when the promise rejected: the 'did not appear' error is thrown.
UploadAwaitRejected ==
    /\ pc = "upl_await"
    /\ listener = "rejected"
    /\ listener' = "none"
    /\ Throw("FileChooserTimeout", i)
    /\ UNCHANGED <<sessionVars, alertVars, listVars, serverVars, loginVars, callVars, ops, submitButtonRef, hasSnapshot, performedActions,
                   dialogErrorDetected, pendingDialog, tabPendingDialog,
                   dialogsRaised, syncFiredAt, pageLog>>

\* Mutant: setFiles pushes no second line for the upload.
UploadSetFiles_noLine ==
    /\ pc = "upl_await"
    /\ listener = "received"
    /\ listener' = "none"
    /\ \E ok \in BOOLEAN :
         /\ pageLog' = Append(pageLog,
                Call("setFiles", "fileChooser", filePaths(ops[i]), i, ok))
         /\ UNCHANGED performedActions
         /\ IF ok
            THEN /\ pc' = "loop"
                 /\ i' = i + 1
                 /\ UNCHANGED <<failedAt, result>>
            ELSE Throw("PageError", i)
    /\ UNCHANGED <<sessionVars, alertVars, listVars, serverVars, loginVars, callVars, ops, submitButtonRef, hasSnapshot, dialogErrorDetected,
                   pendingDialog, tabPendingDialog, dialogsRaised, syncFiredAt>>

\* Lines 109-114 when the event was received: setFiles and the second line.
UploadSetFiles ==
    /\ pc = "upl_await"
    /\ listener = "received"
    /\ listener' = "none"
    /\ \E ok \in BOOLEAN :
         /\ pageLog' = Append(pageLog,
                Call("setFiles", "fileChooser", filePaths(ops[i]), i, ok))
         /\ IF ok
            THEN /\ performedActions' = Append(performedActions,
                        Line("Selected file(s)", elementName(ops[i]),
                             filePaths(ops[i])))
                 /\ pc' = "loop"
                 /\ i' = i + 1
                 /\ UNCHANGED <<failedAt, result>>
            ELSE /\ Throw("PageError", i)
                 /\ UNCHANGED performedActions
    /\ UNCHANGED <<sessionVars, alertVars, listVars, serverVars, loginVars, callVars, ops, submitButtonRef, hasSnapshot, dialogErrorDetected,
                   pendingDialog, tabPendingDialog, dialogsRaised, syncFiredAt>>

\* Lines 120-123: the click on the submit button after the loop.
SubmitClick ==
    /\ pc = "loop"
    /\ i > Len(ops)
    /\ \E ok \in Outcomes(submitButtonRef) :
         /\ pageLog' = Append(pageLog,
                Call("click", submitButtonRef, <<>>, SubmitIdx, ok))
         /\ IF ok
            THEN /\ performedActions' = Append(performedActions,
                        Line("Clicked", submitButtonName, <<>>))
                 /\ pc' = "grace"
                 /\ UNCHANGED <<i, failedAt, result>>
            ELSE /\ Throw("PageError", 0)
                 /\ UNCHANGED performedActions
    /\ UNCHANGED <<sessionVars, alertVars, listVars, serverVars, loginVars, callVars, ops, submitButtonRef, hasSnapshot, dialogErrorDetected,
                   pendingDialog, tabPendingDialog, dialogsRaised, listener,
                   syncFiredAt>>

\* Line 126 when page.waitForTimeout rejects (the page was closed meanwhile).
GraceFailed ==
    /\ pc = "grace"
    /\ pageLog' = Append(pageLog,
           Call("waitForTimeout", "page", <<>>, DialogIdx, FALSE))
    /\ Throw("PageError", 0)
    /\ UNCHANGED <<sessionVars, alertVars, listVars, serverVars, loginVars, callVars, ops, submitButtonRef, hasSnapshot, performedActions,
                   dialogErrorDetected, pendingDialog, tabPendingDialog,
                   dialogsRaised, listener, syncFiredAt>>

\* Lines 126-146 and 154-165: the grace period ends and the register is read.
\* With no dialog the run returns; with one, its message is checked and
\* accept() is called.
GraceEnd ==
    /\ pc = "grace"
    /\ pendingDialog' = tabPendingDialog
    /\ pageLog' = Append(pageLog,
           Call("waitForTimeout", "page", <<>>, DialogIdx, TRUE))
    /\ IF tabPendingDialog = NoDialog
       THEN /\ dialogErrorDetected' = TRUE
            /\ performedActions' = Append(performedActions,
                   Line("Error: No confirmation dialog appeared", <<>>, <<>>))
            /\ Return(dialogErrorDetected', performedActions')
       ELSE /\ dialogErrorDetected' = Unexpected(tabPendingDialog.msg)
            /\ performedActions' =
                   IF Unexpected(tabPendingDialog.msg)
                   THEN Append(performedActions,
                            Line("Unexpected dialog message detected", <<>>,
                                 tabPendingDialog.msg))
                   ELSE performedActions
            /\ pc' = "accepting"
            /\ UNCHANGED result
    /\ UNCHANGED <<sessionVars, alertVars, listVars, serverVars, loginVars, callVars, ops, submitButtonRef, hasSnapshot, i, tabPendingDialog,
                   dialogsRaised, listener, syncFiredAt, failedAt>>

\* Lines 146-153 and 160-165: accept() settles, the finally block clears the
\* register and the status is returned.
AcceptSettled ==
    /\ pc = "accepting"
    /\ \E ok \in AcceptOutcomes(pendingDialog) :
         /\ pageLog' = Append(pageLog,
                DialogCall("accept", pendingDialog, DialogIdx, ok))
         /\ dialogErrorDetected' = (dialogErrorDetected \/ ~ok)
         /\ performedActions' =
                IF ok
                THEN Append(performedActions,
                         Line("Dialog accepted automatically", <<>>,
                              pendingDialog.msg))
                ELSE Append(performedActions,
                         Line("Failed to automatically handle dialog", <<>>, <<>>))
    /\ tabPendingDialog' = RegisterAfterArbitration
    /\ Return(dialogErrorDetected', performedActions')
    /\ UNCHANGED <<sessionVars, alertVars, listVars, serverVars, loginVars, callVars, ops, submitButtonRef, hasSnapshot, i, pendingDialog,
                   dialogsRaised, listener, syncFiredAt, failedAt>>

-----------------------------------------------------------------------------
(* The call-tool request handler of server.ts and its caller *)

\* server.ts lines 60-68: an error thrown by tool.handle is turned into an
\* error result.
CallToolCatch ==
    /\ pc = "thrown"
    /\ pc' = "caught"
    /\ result' = [isError |-> TRUE, kind |-> "caught", error |-> exception,
                  lines |-> <<>>]
    /\ UNCHANGED <<sessionVars, alertVars, listVars, serverVars, loginVars, callVars, ops, submitButtonRef, hasSnapshot, i,
                   performedActions, dialogErrorDetected, pendingDialog,
                   tabPendingDialog, dialogsRaised, listener, syncFiredAt,
                   pageLog, failedAt>>

\* The caller sends the same request again after a run that succeeded: the
\* page has advanced past the form and the tab still holds the old snapshot.
Rerun ==
    /\ pc = "done"
    /\ ~stale
    /\ result.kind = "status"
    /\ ~result.isError
    /\ stale' = TRUE
    /\ pc' = "start"
    /\ i' = 1
    /\ performedActions' = <<>>
    /\ dialogErrorDetected' = FALSE
    /\ pendingDialog' = NoDialog
    /\ syncFiredAt' = {}
    /\ pageLog' = <<>>
    /\ failedAt' = 0
    /\ result' = NoResult
    /\ UNCHANGED <<sessionVars, alertVars, listVars, serverVars, loginVars, paramsValid, hasTab, exception, ops, submitButtonRef,
                   hasSnapshot, tabPendingDialog, dialogsRaised, listener>>

-----------------------------------------------------------------------------
(* loginTool.handle, in the three revisions the repository holds:          *)
(* src/src/tools/login.ts waits for the sign-in link and the username      *)
(* field; src/unnamed/part_004 and src/unnamed/part_006 probe for them     *)
(* with isVisible; only part_006 navigates to the courses page.            *)

submitVars == <<paramsValid, hasTab, stale, exception, ops, submitButtonRef,
                hasSnapshot, pc, i, performedActions, dialogErrorDetected,
                pendingDialog, tabPendingDialog, dialogsRaised, listener,
                syncFiredAt, pageLog, failedAt, result>>

envVars == <<toolName, loginVariant, hasUsername, hasPassword,
             alreadyAuthenticated>>

\* One call of the handler and whether it resolved (for isVisible: its value)
\* The timeout option the revision passes with a call, in ms (0: none)
Timeout(c) ==
    IF loginVariant = "login.ts"
    THEN CASE c = "waitFor_link" -> 10000
           [] c = "waitForSelector_username" -> 15000
           [] c = "waitForURL" -> 20000
           [] c = "waitForSelector_body" -> 10000
           [] OTHER -> 0
    ELSE CASE c \in {"isVisible_link", "isVisible_username",
                     "waitForSelector_body", "waitForURL"} -> 1000
           [] OTHER -> 0

LCall(c, ok) == [call |-> c, ok |-> ok, timeout |-> Timeout(c)]

Step(c, ok) == loginLog' = Append(loginLog, LCall(c, ok))

\* page.waitForURL('**/moocs.iniad.org/**')
OnPlatform(s) == s \in {"signin", "moocs", "courses"}

\* Where page.goto('https://moocs.iniad.org/') lands
Landing == IF alreadyAuthenticated THEN {"moocs"} ELSE {"signin", "idp"}

\* The page after the sign-in link was clicked: the identity provider's
\* form, or a page that never shows the username field
AfterSignIn == {"idp", "other"}

\* The page after LOG IN was clicked: back on the platform, or still on the
\* identity provider (credentials rejected)
AfterSubmit == {"moocs", "idp"}

ConfigError == [isError |-> TRUE, text |-> "config"]

LoginSuccess == [isError |-> FALSE, text |-> "success"]

LoginUnconfirmed == [isError |-> TRUE, text |-> "unconfirmed"]

LoginFailed == [isError |-> TRUE, text |-> "failed"]

LoginReturn(r) ==
    /\ lpc' = "done"
    /\ loginResult' = r

LoginGoto(l) ==
    /\ lpc' = l
    /\ UNCHANGED loginResult

\* The outer catch block: login.ts takes a screenshot first.
LoginThrow ==
    IF loginVariant = "login.ts" THEN LoginGoto("screenshot")
    ELSE LoginReturn(LoginFailed)

\* Mutant: the credentials are not checked before the tab is created.
LoginHandle_noCredentialCheck ==
    /\ lpc = "start"
    /\ \E ok \in BOOLEAN :
           /\ Step("ensureTab", ok)
           /\ IF ok THEN LoginGoto("goto_root") ELSE LoginThrow
    /\ UNCHANGED <<site, sessionVars, alertVars, listVars, serverVars, envVars, submitVars>>

\* The credentials check, then context.ensureTab()
LoginHandle ==
    /\ lpc = "start"
    /\ IF ~hasUsername \/ ~hasPassword
       THEN /\ LoginReturn(ConfigError)
            /\ UNCHANGED loginLog
       ELSE \E ok \in BOOLEAN :
                /\ Step("ensureTab", ok)
                /\ IF ok THEN LoginGoto("goto_root") ELSE LoginThrow
    /\ UNCHANGED <<site, sessionVars, alertVars, listVars, serverVars, envVars, submitVars>>

\* page.goto('https://moocs.iniad.org/')
GotoRoot ==
    /\ lpc = "goto_root"
    /\ \E ok \in BOOLEAN :
           /\ Step("goto_root", ok)
           /\ IF ok
              THEN /\ site' \in Landing
                   /\ LoginGoto(IF loginVariant = "login.ts" THEN "wait_link"
                                ELSE "probe_link")
              ELSE /\ LoginThrow
                   /\ UNCHANGED site
    /\ UNCHANGED <<sessionVars, alertVars, listVars, serverVars, envVars, submitVars>>

\* login.ts: signInLink.waitFor({ state: 'visible', timeout: 10000 })
WaitForLink ==
    /\ lpc = "wait_link"
    /\ Step("waitFor_link", site = "signin")
    /\ IF site = "signin" THEN LoginGoto("click_link") ELSE LoginThrow
    /\ UNCHANGED <<site, sessionVars, alertVars, listVars, serverVars, envVars, submitVars>>

\* part_004, part_006: signInLink.isVisible({ timeout: 1000 })
ProbeLink ==
    /\ lpc = "probe_link"
    /\ Step("isVisible_link", site = "signin")
    /\ LoginGoto(IF site = "signin" THEN "click_link" ELSE "probe_username_first")
    /\ UNCHANGED <<site, sessionVars, alertVars, listVars, serverVars, envVars, submitVars>>

\* signInLink.click()
ClickLink ==
    /\ lpc = "click_link"
    /\ \E ok \in BOOLEAN :
           /\ Step("click_link", ok)
           /\ IF ok
              THEN /\ site' \in AfterSignIn
                   /\ LoginGoto(IF loginVariant = "login.ts" THEN "wait_username"
                                ELSE "probe_username")
              ELSE /\ LoginThrow
                   /\ UNCHANGED site
    /\ UNCHANGED <<sessionVars, alertVars, listVars, serverVars, envVars, submitVars>>

\* part_004, part_006: isOnIdManager, probed when the link is not visible
ProbeUsernameFirst ==
    /\ lpc = "probe_username_first"
    /\ Step("isVisible_username", site = "idp")
    /\ LoginGoto(IF site = "idp" THEN "probe_username" ELSE "probe_body_first")
    /\ UNCHANGED <<site, sessionVars, alertVars, listVars, serverVars, envVars, submitVars>>

\* part_004, part_006: the post-login indicator is probed inside a try block
\* whose catch falls through to the identity-provider steps.
ProbeBodyFirst ==
    /\ lpc = "probe_body_first"
    /\ \E ok \in BOOLEAN :
           /\ Step("waitForSelector_body", ok)
           /\ IF ~ok THEN LoginGoto("probe_username")
              ELSE IF loginVariant = "part_006" THEN LoginGoto("goto_courses_first")
              ELSE LoginReturn(LoginSuccess)
    /\ UNCHANGED <<site, sessionVars, alertVars, listVars, serverVars, envVars, submitVars>>

\* part_006 line 67: page.goto('https://moocs.iniad.org/courses') in the same
\* try block
GotoCoursesFirst ==
    /\ lpc = "goto_courses_first"
    /\ \E ok \in BOOLEAN :
           /\ Step("goto_courses", ok)
           /\ IF ok
              THEN /\ site' = "courses"
                   /\ LoginReturn(LoginSuccess)
              ELSE /\ LoginGoto("probe_username")
                   /\ UNCHANGED site
    /\ UNCHANGED <<sessionVars, alertVars, listVars, serverVars, envVars, submitVars>>

\* login.ts: page.waitForSelector(usernameSelector, { timeout: 15000 })
WaitUsername ==
    /\ lpc = "wait_username"
    /\ Step("waitForSelector_username", site = "idp")
    /\ IF site = "idp" THEN LoginGoto("fill_username") ELSE LoginThrow
    /\ UNCHANGED <<site, sessionVars, alertVars, listVars, serverVars, envVars, submitVars>>

\* Mutant: the fields are filled whether or not the username field is
\* visible.
ProbeUsername_fillAnyway ==
    /\ lpc = "probe_username"
    /\ Step("isVisible_username", site = "idp")
    /\ LoginGoto("fill_username")
    /\ UNCHANGED <<site, sessionVars, alertVars, listVars, serverVars, envVars, submitVars>>

\* part_004, part_006: page.locator(usernameSelectorCheck).isVisible()
ProbeUsername ==
    /\ lpc = "probe_username"
    /\ Step("isVisible_username", site = "idp")
    /\ LoginGoto(IF site = "idp" THEN "fill_username" ELSE "probe_body_last")
    /\ UNCHANGED <<site, sessionVars, alertVars, listVars, serverVars, envVars, submitVars>>

\* page.locator(usernameSelector).fill(username)
FillUsername ==
    /\ lpc = "fill_username"
    /\ \E ok \in BOOLEAN :
           /\ Step("fill_username", ok)
           /\ IF ok THEN LoginGoto("fill_password") ELSE LoginThrow
    /\ UNCHANGED <<site, sessionVars, alertVars, listVars, serverVars, envVars, submitVars>>

\* page.locator(passwordSelector).fill(password)
FillPassword ==
    /\ lpc = "fill_password"
    /\ \E ok \in BOOLEAN :
           /\ Step("fill_password", ok)
           /\ IF ok THEN LoginGoto("click_login") ELSE LoginThrow
    /\ UNCHANGED <<site, sessionVars, alertVars, listVars, serverVars, envVars, submitVars>>

\* page.locator(loginButtonSelector).click()
ClickLogin ==
    /\ lpc = "click_login"
    /\ \E ok \in BOOLEAN :
           /\ Step("click_login", ok)
           /\ IF ok
              THEN /\ site' \in AfterSubmit
                   /\ LoginGoto("wait_url")
              ELSE /\ LoginThrow
                   /\ UNCHANGED site
    /\ UNCHANGED <<sessionVars, alertVars, listVars, serverVars, envVars, submitVars>>

\* page.waitForURL('**/moocs.iniad.org/**')
WaitURL ==
    /\ lpc = "wait_url"
    /\ Step("waitForURL", OnPlatform(site))
    /\ IF OnPlatform(site) THEN LoginGoto("wait_body") ELSE LoginThrow
    /\ UNCHANGED <<site, sessionVars, alertVars, listVars, serverVars, envVars, submitVars>>

\* page.waitForSelector('body') after the redirection
WaitBody ==
    /\ lpc = "wait_body"
    /\ \E ok \in BOOLEAN :
           /\ Step("waitForSelector_body", ok)
           /\ IF ~ok THEN LoginThrow
              ELSE IF loginVariant = "part_006" THEN LoginGoto("goto_courses")
              ELSE LoginReturn(LoginSuccess)
    /\ UNCHANGED <<site, sessionVars, alertVars, listVars, serverVars, envVars, submitVars>>

\* part_006 line 100: page.goto('https://moocs.iniad.org/courses')
GotoCourses ==
    /\ lpc = "goto_courses"
    /\ \E ok \in BOOLEAN :
           /\ Step("goto_courses", ok)
           /\ IF ok
              THEN /\ site' = "courses"
                   /\ LoginReturn(LoginSuccess)
              ELSE /\ LoginThrow
                   /\ UNCHANGED site
    /\ UNCHANGED <<sessionVars, alertVars, listVars, serverVars, envVars, submitVars>>

\* part_004, part_006: the identity-provider steps were skipped; the
\* indicator is probed in a try block whose catch returns the error.
ProbeBodyLast ==
    /\ lpc = "probe_body_last"
    /\ \E ok \in BOOLEAN :
           /\ Step("waitForSelector_body", ok)
           /\ IF ~ok THEN LoginReturn(LoginUnconfirmed)
              ELSE IF loginVariant = "part_006" THEN LoginGoto("goto_courses_last")
              ELSE LoginReturn(LoginSuccess)
    /\ UNCHANGED <<site, sessionVars, alertVars, listVars, serverVars, envVars, submitVars>>

\* part_006 line 110: page.goto('https://moocs.iniad.org/courses') in the same
\* try block
GotoCoursesLast ==
    /\ lpc = "goto_courses_last"
    /\ \E ok \in BOOLEAN :
           /\ Step("goto_courses", ok)
           /\ IF ok
              THEN /\ site' = "courses"
                   /\ LoginReturn(LoginSuccess)
              ELSE /\ LoginReturn(LoginUnconfirmed)
                   /\ UNCHANGED site
    /\ UNCHANGED <<sessionVars, alertVars, listVars, serverVars, envVars, submitVars>>

\* login.ts lines 94-112: the catch block takes a screenshot of the current
\* tab, if there is one, and returns the error.
Screenshot ==
    /\ lpc = "screenshot"
    /\ IF LCall("ensureTab", TRUE) \in { loginLog[k] : k \in DOMAIN loginLog }
       THEN \E ok \in BOOLEAN : Step("screenshot", ok)
       ELSE UNCHANGED loginLog
    /\ LoginReturn(LoginFailed)
    /\ UNCHANGED <<site, sessionVars, alertVars, listVars, serverVars, envVars, submitVars>>

\* server.ts lines 43-45: the ListTools handler returns the schemas of the
\* tools the server was created with.
ListTools ==
    /\ requestMethod = "tools/list"
    /\ ~listed.done
    /\ listed' = [done |-> TRUE, names |-> Names(tools)]
    /\ UNCHANGED <<requestMethod, vision, capabilities, alertVars,
                   listVars, sessionVars, loginVars, submitVars>>

-----------------------------------------------------------------------------

Next ==
    \/ CallToolCatch
    \/ Rerun
    \/ DialogEvent
    \/ Handle
    \/ ApplyOperation
    \/ UploadArm
    \/ UploadClick
    \/ FileChooserEvent
    \/ FileChooserTimeout
    \/ UploadAwaitRejected
    \/ UploadSetFiles
    \/ SubmitClick
    \/ GraceFailed
    \/ GraceEnd
    \/ AcceptSettled
    \/ LoginHandle
    \/ GotoRoot
    \/ WaitForLink
    \/ ProbeLink
    \/ ClickLink
    \/ ProbeUsernameFirst
    \/ ProbeBodyFirst
    \/ GotoCoursesFirst
    \/ WaitUsername
    \/ ProbeUsername
    \/ FillUsername
    \/ FillPassword
    \/ ClickLogin
    \/ WaitURL
    \/ WaitBody
    \/ GotoCourses
    \/ ProbeBodyLast
    \/ GotoCoursesLast
    \/ Screenshot
    \/ ListTools

Spec == Init /\ [][Next]_vars

\* The steps of a submit_assignment call that the handler, its timers and
\* the settling of its awaited calls take by themselves.  The page's events
\* (a dialog, a file chooser) are not among them.
HandlerStep ==
    \/ CallToolCatch
    \/ Handle
    \/ ApplyOperation
    \/ UploadArm
    \/ UploadClick
    \/ FileChooserTimeout
    \/ UploadAwaitRejected
    \/ UploadSetFiles
    \/ SubmitClick
    \/ GraceFailed
    \/ GraceEnd
    \/ AcceptSettled

\* The operations that end a step in each of its ways: it completes, its
\* validation fails, its page call throws, it suspends on the file chooser.
TerminationOperations ==
    { Operation("type", "r1", v, "") : v \in {Str("/a"), Undefined} }
    \cup { Operation("click", "rX", Undefined, "") }
    \cup { Operation("select", "r1", Arr(<<"/a", "b">>), "") }
    \cup { Operation("upload", "r1", v, "") : v \in {Str("/a"), Arr(<<>>)} }

FairInit ==
    /\ Init
    /\ toolName = SubmitName
    /\ ops \in SeqsUpTo(TerminationOperations, MaxOps)

FairNext ==
    \/ HandlerStep
    \/ Rerun
    \/ DialogEvent
    \/ FileChooserEvent

\* Every awaited call settles and every timer expires.
FairSpec == FairInit /\ [][FairNext]_vars /\ WF_vars(HandlerStep)

-----------------------------------------------------------------------------
(* Other calls on the same session: the CallTool handler of server.ts      *)
(* awaits tool.handle per request and holds no lock, so a                  *)
(* browser_handle_dialog call (src/src/tools/handleDialog.ts) and a second *)
(* submit_assignment run proceed between the awaits of the first run.  The *)
(* second run is the same handler on a request without operations: only    *)
(* its steps from the submit click on are modelled.                        *)

SCall(by, c, dialog, ok) == [by |-> by, call |-> c, dlg |-> dialog.id, ok |-> ok]

\* A run's submit click succeeded.
Clicked(r) ==
    IF r = "first"
    THEN \E c \in 1..Len(pageLog) : pageLog[c].idx = SubmitIdx /\ pageLog[c].ok
    ELSE otherPc \in {"grace", "accepting", "done"} /\ otherResult.kind # "error"

\* The page answers a submit click with a dialog, which the tab stores in the
\* register.
SubmitDialogEvent ==
    \E r \in {"first", "other"}, m \in Messages :
        /\ Clicked(r)
        /\ ~\E o \in owners : o[2] = r
        /\ dialogsRaised < MaxDialogs
        /\ dialogsRaised' = dialogsRaised + 1
        /\ tabPendingDialog' = [id |-> dialogsRaised + 1, msg |-> m]
        /\ owners' = owners \cup {<<dialogsRaised + 1, r>>}
        /\ UNCHANGED <<alertVars, listVars, serverVars, loginVars, callVars, ops, submitButtonRef,
                       hasSnapshot, pc, i, performedActions,
                       dialogErrorDetected, pendingDialog, listener,
                       syncFiredAt, pageLog, failedAt, result, hdPc, hdAccept,
                       hdDialog, hdResult, otherPc, otherPendingDialog,
                       otherResult, sessionLog>>

\* handleDialog.ts lines 35-45: the register is read; without a dialog the
\* call returns 'No dialog visible'.
HandleDialogStart ==
    /\ hdPc = "start"
    /\ hdDialog' = tabPendingDialog
    /\ IF tabPendingDialog = NoDialog
       THEN /\ hdPc' = "done"
            /\ hdResult' = [isError |-> TRUE, text |-> "No dialog visible"]
       ELSE /\ hdPc' = "settling"
            /\ UNCHANGED hdResult
    /\ UNCHANGED <<alertVars, listVars, serverVars, loginVars, submitVars, hdAccept, otherPc,
                   otherPendingDialog, otherResult, sessionLog, owners>>

\* handleDialog.ts lines 47-64: accept() or dismiss() settles; only when it
\* resolved is the register cleared.
HandleDialogSettled ==
    /\ hdPc = "settling"
    /\ \E ok \in AcceptOutcomes(hdDialog) :
         /\ sessionLog' = Append(sessionLog,
                SCall("handle_dialog", IF hdAccept THEN "accept" ELSE "dismiss",
                      hdDialog, ok))
         /\ tabPendingDialog' = IF ok THEN NoDialog ELSE tabPendingDialog
         /\ hdResult' = IF ok THEN [isError |-> FALSE, text |-> "handled"]
                        ELSE [isError |-> TRUE, text |-> "Failed to handle dialog"]
    /\ hdPc' = "done"
    /\ UNCHANGED <<alertVars, listVars, serverVars, loginVars, callVars, ops, submitButtonRef,
                   hasSnapshot, pc, i, performedActions, dialogErrorDetected,
                   pendingDialog, dialogsRaised, listener, syncFiredAt,
                   pageLog, failedAt, result, hdAccept, hdDialog, otherPc,
                   otherPendingDialog, otherResult, owners>>

\* Mutant: the server handles one call at a time.
OtherHandle_serialised ==
    /\ otherPc = "start"
    /\ pc \in {"done", "caught"}
    /\ otherPc' = "click"
    /\ UNCHANGED <<alertVars, listVars, serverVars, loginVars, submitVars, hdPc, hdAccept, hdDialog,
                   hdResult, otherPendingDialog, otherResult, sessionLog, owners>>

\* server.ts lines 51-62 and submitAssignment.ts lines 49-60 for the second
\* request: its parameters parse, the tab and its snapshot are the first
\* run's.
OtherHandle ==
    /\ otherPc = "start"
    /\ otherPc' = "click"
    /\ UNCHANGED <<alertVars, listVars, serverVars, loginVars, submitVars, hdPc, hdAccept, hdDialog,
                   hdResult, otherPendingDialog, otherResult, sessionLog, owners>>

\* Lines 120-123 of the second run
OtherSubmitClick ==
    /\ otherPc = "click"
    /\ \E ok \in Outcomes(submitButtonRef) :
         IF ok
         THEN /\ otherPc' = "grace"
              /\ UNCHANGED otherResult
         ELSE /\ otherPc' = "done"
              /\ otherResult' = [isError |-> TRUE, kind |-> "error",
                                 error |-> "PageError", lines |-> <<>>]
    /\ UNCHANGED <<alertVars, listVars, serverVars, loginVars, submitVars, hdPc, hdAccept, hdDialog,
                   hdResult, otherPendingDialog, sessionLog, owners>>

\* Lines 126-131 and 154-165 of the second run: after the wait the register
\* is read; without a dialog the run returns the error status.
OtherGraceEnd ==
    /\ otherPc = "grace"
    /\ otherPendingDialog' = tabPendingDialog
    /\ IF tabPendingDialog = NoDialog
       THEN /\ otherPc' = "done"
            /\ otherResult' = [isError |-> TRUE, kind |-> "status",
                               error |-> "", lines |-> <<NoDialogLine>>]
       ELSE /\ otherPc' = "accepting"
            /\ UNCHANGED otherResult
    /\ UNCHANGED <<alertVars, listVars, serverVars, loginVars, submitVars, hdPc, hdAccept, hdDialog,
                   hdResult, sessionLog, owners>>

\* Lines 132-153 and 160-165 of the second run: accept() settles, the
\* register is cleared, the status is returned.
OtherAcceptSettled ==
    /\ otherPc = "accepting"
    /\ \E ok \in AcceptOutcomes(otherPendingDialog) :
         /\ sessionLog' = Append(sessionLog,
                SCall("other", "accept", otherPendingDialog, ok))
         /\ otherResult' = [isError |-> Unexpected(otherPendingDialog.msg) \/ ~ok,
                            kind |-> "status", error |-> "", lines |-> <<>>]
    /\ tabPendingDialog' = RegisterAfterArbitration
    /\ otherPc' = "done"
    /\ UNCHANGED <<alertVars, listVars, serverVars, loginVars, callVars, ops, submitButtonRef,
                   hasSnapshot, pc, i, performedActions, dialogErrorDetected,
                   pendingDialog, dialogsRaised, listener, syncFiredAt,
                   pageLog, failedAt, result, hdPc, hdAccept, hdDialog,
                   hdResult, otherPendingDialog, owners>>

\* A session with a tab and a snapshot: a submit_assignment request without
\* operations, and possibly a browser_handle_dialog call and a second
\* submit_assignment request.
SessionInit ==
    \* no ServerList call and no confirm_submission_alert call is made
    /\ servers = <<>>
    /\ listLog = <<>>
    /\ apc = "idle"
    /\ expectedText = <<>>
    /\ alertTimer = "none"
    /\ alertListener = "none"
    /\ handlerPc = "none"
    /\ dialogOccurred = FALSE
    /\ alertDialog = NoDialog
    /\ alertLog = <<>>
    /\ alertResult = NoAlertResult
    /\ requestMethod = "tools/call"
    /\ vision = FALSE
    /\ capabilities = NoFilter
    /\ listed = NotListed
    /\ hdPc \in {"idle", "start"}
    /\ hdAccept \in IF hdPc = "start" THEN BOOLEAN ELSE {FALSE}
    /\ hdDialog = NoDialog
    /\ hdResult = NoHdResult
    /\ otherPc \in {"idle", "start"}
    /\ otherPendingDialog = NoDialog
    /\ otherResult = NoResult
    /\ sessionLog = <<>>
    /\ owners = {}
    /\ toolName = SubmitName
    /\ loginVariant = "login.ts"
    /\ hasUsername = FALSE
    /\ hasPassword = FALSE
    /\ alreadyAuthenticated = FALSE
    /\ site = "blank"
    /\ lpc = "idle"
    /\ loginLog = <<>>
    /\ loginResult = NoLoginResult
    /\ paramsValid = TRUE
    /\ hasTab = TRUE
    /\ stale = FALSE
    /\ exception = ""
    /\ ops = <<>>
    /\ submitButtonRef \in Refs
    /\ hasSnapshot = TRUE
    /\ pc = "start"
    /\ i = 1
    /\ performedActions = <<>>
    /\ dialogErrorDetected = FALSE
    /\ pendingDialog = NoDialog
    /\ tabPendingDialog = NoDialog
    /\ dialogsRaised = 0
    /\ listener = "none"
    /\ syncFiredAt = {}
    /\ pageLog = <<>>
    /\ failedAt = 0
    /\ result = NoResult

SessionNext ==
    \/ Handle
    \/ SubmitClick
    \/ GraceFailed
    \/ GraceEnd
    \/ AcceptSettled
    \/ SubmitDialogEvent
    \/ HandleDialogStart
    \/ HandleDialogSettled
    \/ OtherHandle
    \/ OtherSubmitClick
    \/ OtherGraceEnd
    \/ OtherAcceptSettled

SessionSpec == SessionInit /\ [][SessionNext]_vars

-----------------------------------------------------------------------------
(* confirmSubmissionAlert.handle (src/src/tools/confirmSubmissionAlert.ts): *)
(* the call arms a timer and a one-shot 'dialog' listener and awaits the    *)
(* promise the two of them settle.  The tab's own 'dialog' listener stores  *)
(* every dialog in the register as before.                                  *)

AlertName == "confirm_submission_alert"

\* Values of expected_text: a phrase, the empty string, a single symbol.
ExpectedTexts == {expectedEN, <<>>, <<"x">>}

\* Mutant: every message is taken to match.
Matches_any(message, expected) == TRUE

\* message.includes(validatedParams.expected_text) (line 57)
Matches(message, expected) == Includes(message, expected)

\* dialog.accept() for a matching message, dialog.dismiss() otherwise
AlertCall(dialog) ==
    IF Matches(dialog.msg, expectedText) THEN "accept" ELSE "dismiss"

\* resolve(...) of lines 59-61
Confirmed == [isError |-> FALSE, text |-> "Confirmed and accepted alert dialog"]

\* The catch block of lines 75-87 on the rejection err of dialogPromise.
AlertCatchResult(occurred, err) ==
    IF ~occurred /\ err = "Timeout"
    THEN [isError |-> TRUE, text |-> "Timeout"]
    ELSE IF err = "Alert dialog text mismatch"
    THEN [isError |-> TRUE, text |-> "Alert dialog text mismatch"]
    ELSE [isError |-> TRUE, text |-> "Error confirming submission alert"]

\* The variables of submit_assignment a confirm_submission_alert call leaves
\* alone, the register and the dialog counter apart.
submitRest == <<paramsValid, hasTab, stale, ops, submitButtonRef, hasSnapshot,
                pc, i, performedActions, dialogErrorDetected, pendingDialog,
                listener, syncFiredAt, pageLog, failedAt, result>>

\* Lines 36-70: the parse of the parameters and the current tab, then the
\* executor of dialogPromise, which arms the timer and the listener.
AlertHandle ==
    /\ apc = "start"
    /\ IF ~paramsValid \/ ~hasTab
       THEN /\ apc' = "thrown"
            /\ exception' = IF ~paramsValid THEN "ZodError" ELSE "NoTab"
            /\ UNCHANGED <<alertTimer, alertListener>>
       ELSE /\ apc' = "waiting"
            /\ alertTimer' = "armed"
            /\ alertListener' = "armed"
            /\ UNCHANGED exception
    /\ UNCHANGED <<listVars, serverVars, sessionVars, loginVars, submitRest,
                   tabPendingDialog, dialogsRaised, expectedText, handlerPc,
                   dialogOccurred, alertDialog, alertLog, alertResult>>

\* server.ts lines 60-68: an error thrown by the handler before its try
\* block is turned into an error result.
AlertCatch ==
    /\ apc = "thrown"
    /\ apc' = "caught"
    /\ alertResult' = [isError |-> TRUE, text |-> exception]
    /\ UNCHANGED <<listVars, serverVars, sessionVars, loginVars, submitVars,
                   expectedText, alertTimer, alertListener, handlerPc,
                   dialogOccurred, alertDialog, alertLog>>

\* Mutant: dialogHandler does not clear the timer.
AlertDialogEvent_noClear ==
    \E m \in Messages :
        LET dialog == [id |-> dialogsRaised + 1, msg |-> m] IN
        /\ hasTab
        /\ dialogsRaised < MaxDialogs
        /\ dialogsRaised' = dialogsRaised + 1
        /\ tabPendingDialog' = dialog
        /\ IF alertListener = "armed"
           THEN /\ dialogOccurred' = TRUE
                /\ alertListener' = "removed"
                /\ alertDialog' = dialog
                /\ handlerPc' = "settling"
           ELSE UNCHANGED <<dialogOccurred, alertListener, alertDialog, handlerPc>>
        /\ UNCHANGED <<listVars, serverVars, sessionVars, loginVars, submitRest,
                       exception, apc, expectedText, alertTimer, alertLog,
                       alertResult>>

\* The page raises a dialog: the tab stores it in the register, and the
\* listener of line 69, when it is armed, runs dialogHandler up to its await
\* (lines 52-58 or 52-64): the flag is set, the timer cleared, the listener
\* removed and accept() or dismiss() called.
AlertDialogEvent ==
    \E m \in Messages :
        LET dialog == [id |-> dialogsRaised + 1, msg |-> m] IN
        /\ hasTab
        /\ dialogsRaised < MaxDialogs
        /\ dialogsRaised' = dialogsRaised + 1
        /\ tabPendingDialog' = dialog
        /\ IF alertListener = "armed"
           THEN /\ dialogOccurred' = TRUE
                /\ alertTimer' = IF alertTimer = "armed" THEN "cleared"
                                 ELSE alertTimer
                /\ alertListener' = "removed"
                /\ alertDialog' = dialog
                /\ handlerPc' = "settling"
           ELSE UNCHANGED <<dialogOccurred, alertTimer, alertListener,
                            alertDialog, handlerPc>>
        /\ UNCHANGED <<listVars, serverVars, sessionVars, loginVars, submitRest,
                       exception, apc, expectedText, alertLog, alertResult>>

\* Lines 58-66 and 72-87: accept() or dismiss() settles.  When it resolved,
\* dialogPromise is resolved or rejected with the mismatch and the call
\* returns; when it rejected, the promise of dialogHandler rejects, nothing
\* observes it and dialogPromise stays pending.
AlertSettled ==
    /\ handlerPc = "settling"
    /\ \E ok \in AcceptOutcomes(alertDialog) :
         /\ alertLog' = Append(alertLog,
                [call |-> AlertCall(alertDialog), dlg |-> alertDialog.id,
                 ok |-> ok])
         /\ handlerPc' = IF ok THEN "finished" ELSE "rejected"
         /\ IF ok /\ apc = "waiting"
            THEN /\ apc' = "done"
                 /\ alertResult' =
                        IF AlertCall(alertDialog) = "accept" THEN Confirmed
                        ELSE AlertCatchResult(dialogOccurred,
                                              "Alert dialog text mismatch")
            ELSE UNCHANGED <<apc, alertResult>>
    /\ UNCHANGED <<listVars, serverVars, sessionVars, loginVars, submitVars,
                   expectedText, alertTimer, alertListener, dialogOccurred,
                   alertDialog>>

\* Lines 45-49 and 72-87: the timer fires, removes the listener and rejects
\* dialogPromise; a promise that is already settled stays as it is.
AlertTimerFires ==
    /\ alertTimer = "armed"
    /\ alertTimer' = "fired"
    /\ alertListener' = "removed"
    /\ IF apc = "waiting"
       THEN /\ apc' = "done"
            /\ alertResult' = AlertCatchResult(dialogOccurred, "Timeout")
       ELSE UNCHANGED <<apc, alertResult>>
    /\ UNCHANGED <<listVars, serverVars, sessionVars, loginVars, submitVars,
                   expectedText, handlerPc, dialogOccurred, alertDialog,
                   alertLog>>

\* A confirm_submission_alert call on a session where no other call runs.
AlertInit ==
    /\ servers = <<>>
    /\ listLog = <<>>
    /\ requestMethod = "tools/call"
    /\ vision = FALSE
    /\ capabilities = NoFilter
    /\ listed = NotListed
    /\ hdPc = "idle"
    /\ hdAccept = FALSE
    /\ hdDialog = NoDialog
    /\ hdResult = NoHdResult
    /\ otherPc = "idle"
    /\ otherPendingDialog = NoDialog
    /\ otherResult = NoResult
    /\ sessionLog = <<>>
    /\ owners = {}
    /\ toolName = AlertName
    /\ loginVariant = "login.ts"
    /\ hasUsername = FALSE
    /\ hasPassword = FALSE
    /\ alreadyAuthenticated = FALSE
    /\ site = "blank"
    /\ lpc = "idle"
    /\ loginLog = <<>>
    /\ loginResult = NoLoginResult
    /\ paramsValid \in BOOLEAN
    /\ hasTab \in BOOLEAN
    /\ stale = FALSE
    /\ exception = ""
    /\ ops = <<>>
    /\ submitButtonRef = "rX"
    /\ hasSnapshot = FALSE
    /\ pc = "idle"
    /\ i = 1
    /\ performedActions = <<>>
    /\ dialogErrorDetected = FALSE
    /\ pendingDialog = NoDialog
    /\ tabPendingDialog = NoDialog
    /\ dialogsRaised = 0
    /\ listener = "none"
    /\ syncFiredAt = {}
    /\ pageLog = <<>>
    /\ failedAt = 0
    /\ result = NoResult
    /\ apc = "start"
    /\ expectedText \in IF paramsValid THEN ExpectedTexts ELSE {<<>>}
    /\ alertTimer = "none"
    /\ alertListener = "none"
    /\ handlerPc = "none"
    /\ dialogOccurred = FALSE
    /\ alertDialog = NoDialog
    /\ alertLog = <<>>
    /\ alertResult = NoAlertResult

AlertNext ==
    \/ AlertHandle
    \/ AlertCatch
    \/ AlertDialogEvent
    \/ AlertSettled
    \/ AlertTimerFires

\* The steps the call, its timer and its awaited dialog call take by
\* themselves.
AlertStep ==
    \/ AlertHandle
    \/ AlertCatch
    \/ AlertSettled
    \/ AlertTimerFires

\* The timer fires unless it is cleared, and every awaited call settles.
AlertSpec == AlertInit /\ [][AlertNext]_vars /\ WF_vars(AlertStep)

-----------------------------------------------------------------------------
(* ServerList (src/src/server.ts lines 90-114): the caller creates servers, *)
(* closes one of them by reference and closes all of them, in any order.    *)
(* Servers are numbered in the order the factory made them; closing a       *)
(* server is the call of its close() (lines 82-85).                         *)

\* One call on the ServerList: the server it made or was given (0 for
\* closeAll) and the servers whose close() it called.
ListCall(op, server, closed) == [op |-> op, server |-> server, closed |-> closed]

\* The servers the factory has made so far.
Created == Cardinality({k \in 1..Len(listLog) : listLog[k].op = "create"})

\* The servers in this._servers.
InList == {servers[k] : k \in 1..Len(servers)}

\* this._servers.indexOf(server) followed by splice(index, 1) when found
Splice(server) == SelectSeq(servers, LAMBDA s : s # server)

\* Lines 98-102
create ==
    /\ Len(listLog) < MaxListOps
    /\ Created < MaxServers
    /\ servers' = Append(servers, Created + 1)
    /\ listLog' = Append(listLog, ListCall("create", Created + 1, {}))
    /\ UNCHANGED <<alertVars, serverVars, sessionVars, loginVars, submitVars>>

\* Lines 104-109: the server is removed when it is in the list, and closed
\* in either case.
close(server) ==
    /\ Len(listLog) < MaxListOps
    /\ servers' = Splice(server)
    /\ listLog' = Append(listLog, ListCall("close", server, {server}))
    /\ UNCHANGED <<alertVars, serverVars, sessionVars, loginVars, submitVars>>

\* Lines 111-113: every server in the list is closed; the list is kept.
closeAll ==
    /\ Len(listLog) < MaxListOps
    /\ listLog' = Append(listLog, ListCall("closeAll", 0, InList))
    /\ UNCHANGED <<servers, alertVars, serverVars, sessionVars, loginVars,
                   submitVars>>

\* A ServerList after its constructor; no request is being handled.
ListInit ==
    /\ servers = <<>>
    /\ listLog = <<>>
    /\ apc = "idle"
    /\ expectedText = <<>>
    /\ alertTimer = "none"
    /\ alertListener = "none"
    /\ handlerPc = "none"
    /\ dialogOccurred = FALSE
    /\ alertDialog = NoDialog
    /\ alertLog = <<>>
    /\ alertResult = NoAlertResult
    /\ requestMethod = "none"
    /\ vision = FALSE
    /\ capabilities = NoFilter
    /\ listed = NotListed
    /\ hdPc = "idle"
    /\ hdAccept = FALSE
    /\ hdDialog = NoDialog
    /\ hdResult = NoHdResult
    /\ otherPc = "idle"
    /\ otherPendingDialog = NoDialog
    /\ otherResult = NoResult
    /\ sessionLog = <<>>
    /\ owners = {}
    /\ toolName = "none"
    /\ loginVariant = "login.ts"
    /\ hasUsername = FALSE
    /\ hasPassword = FALSE
    /\ alreadyAuthenticated = FALSE
    /\ site = "blank"
    /\ lpc = "idle"
    /\ loginLog = <<>>
    /\ loginResult = NoLoginResult
    /\ paramsValid = FALSE
    /\ hasTab = FALSE
    /\ stale = FALSE
    /\ exception = ""
    /\ ops = <<>>
    /\ submitButtonRef = "rX"
    /\ hasSnapshot = FALSE
    /\ pc = "idle"
    /\ i = 1
    /\ performedActions = <<>>
    /\ dialogErrorDetected = FALSE
    /\ pendingDialog = NoDialog
    /\ tabPendingDialog = NoDialog
    /\ dialogsRaised = 0
    /\ listener = "none"
    /\ syncFiredAt = {}
    /\ pageLog = <<>>
    /\ failedAt = 0
    /\ result = NoResult

\* close is called with a server that create returned.
ListNext ==
    \/ create
    \/ \E server \in 1..Created : close(server)
    \/ closeAll

ListSpec == ListInit /\ [][ListNext]_vars

-----------------------------------------------------------------------------
(* Vocabulary of the properties *)

Done == pc = "done"

\* The calls issued to the page, as a set of positions of pageLog.
Calls == 1..Len(pageLog)

\* The message contains one of the two accepted phrases (on the raw text).
ContainsAccepted(msg) == Includes(msg, expectedJP) \/ Includes(msg, expectedEN)

\* Every operation has the value shape its action requires and a reference
\* the snapshot resolves.
WellFormed ==
    \A k \in 1..Len(ops) :
        /\ Resolves(ops[k].ref)
        /\ CASE ops[k].action = "type" -> ops[k].value.t = "string"
             [] ops[k].action = "select" -> ops[k].value.t \in {"string", "array"}
             [] ops[k].action = "upload" ->
                    /\ ops[k].value.t \in {"string", "array"}
                    /\ ops[k].value # Str("")
             [] OTHER -> TRUE

SubmitClicked == \E c \in Calls : pageLog[c].idx = SubmitIdx /\ pageLog[c].ok

SubmitFailed == \E c \in Calls : pageLog[c].idx = SubmitIdx /\ ~pageLog[c].ok

GraceElapsed ==
    \E c \in Calls : pageLog[c].call = "waitForTimeout" /\ pageLog[c].ok

WaitFailed ==
    \E c \in Calls : pageLog[c].call = "waitForTimeout" /\ ~pageLog[c].ok

\* The arbitration step read the register: it found a dialog, or none.
ArbitratedDialog == GraceElapsed /\ pendingDialog # NoDialog

ArbitratedNoDialog == GraceElapsed /\ pendingDialog = NoDialog

AcceptThrew == \E c \in Calls : pageLog[c].call = "accept" /\ ~pageLog[c].ok

NumUploads == Cardinality({k \in 1..Len(ops) : ops[k].action = "upload"})

\* The lines of the steps of a run whose operations and submit click all
\* completed, in order.
RECURSIVE StepLines(_)
StepLines(k) ==
    IF k = 0 THEN <<>>
    ELSE StepLines(k - 1) \o
         ( IF ops[k].action = "upload"
           THEN << Line("Clicked upload trigger", elementName(ops[k]), <<>>),
                   Line("Selected file(s)", elementName(ops[k]),
                        IF ops[k].value.t = "array" THEN ops[k].value.arr
                        ELSE <<ops[k].value.str>>) >>
           ELSE << OpLine(ops[k]) >> )

-----------------------------------------------------------------------------
(* C1..C10 *)

\* C1: once the operation at position k has failed, no call has been issued
\* to the page for any operation after k, and none for the submit button.
C1_NothingAfterFailure ==
    failedAt # 0 =>
        /\ Done
        /\ \A c \in Calls : pageLog[c].idx <= failedAt

\* C1 witness: the first of two operations failed and the run has ended.
C1_Witness ==
    /\ Done
    /\ failedAt = 1
    /\ Len(ops) = 2
    /\ ops[2].ref \in Resolvable

\* C2 (as claimed): when operation k fails the result is an error and its
\* trace has one entry for each operation completed before k.
C2_PartialTraceReturned ==
    (Done /\ failedAt # 0) =>
        /\ result.isError
        /\ Len(result.lines) = failedAt - 1

\* C3 (as claimed): with well-formed operations and a dialog in the register
\* after the grace period whose message contains an accepted phrase, the
\* result is not an error.
C3_AcceptedDialogMeansSuccess ==
    (Done /\ WellFormed /\ ArbitratedDialog
          /\ ContainsAccepted(pendingDialog.msg)) => ~result.isError

\* C3 (amended): the same, provided accept() on the dialog did not throw.
C3_AcceptedDialogMeansSuccessUnlessAcceptThrows ==
    (Done /\ WellFormed /\ ArbitratedDialog
          /\ ContainsAccepted(pendingDialog.msg) /\ ~AcceptThrew)
        => ~result.isError

\* C3 witness: a run of two operations ended without error on a dialog whose
\* message contains a phrase between other text.
C3_Witness ==
    /\ Done
    /\ Len(ops) = 2
    /\ ~result.isError
    /\ result.kind = "status"
    /\ pendingDialog.msg \notin {expectedEN, expectedJP}

\* C4 (as claimed): a fully successful run returns operations.length + 2
\* trace entries.
C4_OneLinePerOperation ==
    (Done /\ result.kind = "status" /\ ~result.isError) =>
        Len(result.lines) = Len(ops) + 2

\* C4 (amended): a fully successful run returns one entry per operation other
\* than upload, two per upload (the click on the trigger and the selected
\* files), one for the submit click and one for the dialog.
C4_TwoLinesPerUpload ==
    (Done /\ result.kind = "status" /\ ~result.isError) =>
        /\ Len(result.lines) = Len(ops) + NumUploads + 2
        /\ SubSeq(result.lines, 1, Len(result.lines) - 2) = StepLines(Len(ops))

\* C4 witness: a successful run with an upload and another operation.
C4_Witness ==
    /\ Done
    /\ result.kind = "status"
    /\ ~result.isError
    /\ Len(ops) = 2
    /\ NumUploads = 1

\* C5 (as claimed): the result is an error exactly when an operation failed,
\* no dialog was registered, the message matched no phrase or accept() threw.
C5_ErrorIffListedCauses ==
    Done =>
        ( result.isError <=>
            \/ failedAt # 0
            \/ ArbitratedNoDialog
            \/ (ArbitratedDialog /\ ~ContainsAccepted(pendingDialog.msg))
            \/ AcceptThrew )

\* C5 (amended): the result is an error exactly when one of the four causes
\* holds, or the snapshot was missing, or the submit click or the wait after
\* it failed.
C5_ErrorIffListedCausesOrEarlyFailure ==
    Done =>
        ( result.isError <=>
            \/ failedAt # 0
            \/ ArbitratedNoDialog
            \/ (ArbitratedDialog /\ ~ContainsAccepted(pendingDialog.msg))
            \/ AcceptThrew
            \/ ~hasSnapshot
            \/ SubmitFailed
            \/ WaitFailed )

\* C5 witness: every operation completed and the submit click failed.
C5_Witness ==
    /\ Done
    /\ Len(ops) = 2
    /\ failedAt = 0
    /\ SubmitFailed
    /\ result.isError

\* C6 (as claimed): accept() is called on a dialog only if its message
\* contains an accepted phrase.
C6_MismatchNeverAccepted ==
    \A c \in Calls :
        (pageLog[c].call = "accept" /\ pageLog[c].ok)
            => ContainsAccepted(pageLog[c].arg)

\* C7: when the register is empty at the end of the grace period, the result
\* is an error whose trace is the lines of the completed steps followed by
\* the line stating that no confirmation dialog appeared.
C7_NoDialogIsError ==
    ArbitratedNoDialog =>
        /\ result.isError
        /\ result.lines = StepLines(Len(ops))
                            \o << Line("Clicked", submitButtonName, <<>>),
                                  NoDialogLine >>

\* C7 witness: two operations completed, then no dialog was registered.
C7_Witness ==
    /\ ArbitratedNoDialog
    /\ Len(ops) = 2
    /\ NumUploads = 1
    /\ dialogsRaised = 0

\* C8: the step that ends the arbitration of a registered dialog leaves the
\* register empty.
C8_RegisterClearedAfterArbitration ==
    [][(pc = "accepting" /\ pc' # "accepting") => tabPendingDialog' = NoDialog]_vars

\* C8 witness: accept() threw on the arbitrated dialog, a second dialog had
\* been stored meanwhile, and the register is empty at the end.
C8_Witness ==
    /\ Done
    /\ ArbitratedDialog
    /\ AcceptThrew
    /\ dialogsRaised > pendingDialog.id
    /\ tabPendingDialog = NoDialog

\* C9: every setFiles call passes exactly the caller's paths: one path for a
\* string value, the whole sequence in the caller's order for an array.
C9_UploadPresentsCallersPaths ==
    \A c \in Calls :
        pageLog[c].call = "setFiles" =>
            LET v == ops[pageLog[c].idx].value IN
            /\ v.t = "string" => pageLog[c].arg = <<v.str>>
            /\ v.t = "array" => pageLog[c].arg = v.arr

\* C9 witness: setFiles was called for an array of two paths.
C9_Witness ==
    \E c \in Calls :
        /\ pageLog[c].call = "setFiles"
        /\ pageLog[c].ok
        /\ Len(pageLog[c].arg) = 2

-----------------------------------------------------------------------------
(* C11..C20 *)

\* The upload control of operation k was clicked and no file was supplied.
ClickedWithoutFiles(k) ==
    /\ k \in 1..Len(ops)
    /\ ops[k].action = "upload"
    /\ \E c \in Calls : pageLog[c].idx = k /\ pageLog[c].call = "click"
                         /\ pageLog[c].ok
    /\ ~\E c \in Calls : pageLog[c].idx = k /\ pageLog[c].call = "setFiles"

\* C11: when the upload control was clicked and the run ended at that
\* operation with no file chooser, the result is the 'file chooser did not
\* appear' error, flagged, and no later step was issued to the page.
C11_FileChooserTimeoutAborts ==
    (Done /\ failedAt # 0 /\ ClickedWithoutFiles(failedAt)) =>
        /\ result.isError
        /\ result.error = "FileChooserTimeout"
        /\ \A c \in Calls : pageLog[c].idx <= failedAt

\* C11 witness: the first of two operations is an upload whose file chooser
\* never appeared.
C11_Witness ==
    /\ Done
    /\ Len(ops) = 2
    /\ failedAt = 1
    /\ ClickedWithoutFiles(1)
    /\ 1 \notin syncFiredAt

\* The call that completes step k of the run.
CompletingCall(k) ==
    IF k <= Len(ops)
    THEN IF ops[k].action = "upload" THEN "setFiles" ELSE Method(ops[k])
    ELSE IF k = SubmitIdx THEN "click" ELSE "waitForTimeout"

CompletedBefore(k, c) ==
    \E d \in 1..(c - 1) :
        /\ pageLog[d].idx = k
        /\ pageLog[d].ok
        /\ pageLog[d].call = CompletingCall(k)

\* C12: the calls reach the page in the order of the steps; a call of step
\* k is issued only after step k - 1 completed (for an upload, after
\* setFiles returned); accept() is called, and the register has been read,
\* only after the submit click and the grace period.
C12_StepsTotallyOrdered ==
    /\ \A c \in Calls : \A d \in 1..(c - 1) : pageLog[d].idx <= pageLog[c].idx
    /\ \A c \in Calls : pageLog[c].idx > 1 => CompletedBefore(pageLog[c].idx - 1, c)
    /\ \A c \in Calls :
          pageLog[c].call = "setFiles" =>
              \E d \in 1..(c - 1) : /\ pageLog[d].idx = pageLog[c].idx
                                    /\ pageLog[d].call = "click"
                                    /\ pageLog[d].ok
    /\ \A c \in Calls : pageLog[c].call = "accept" => CompletedBefore(DialogIdx, c)
    /\ (pendingDialog # NoDialog \/ dialogErrorDetected) => GraceElapsed

\* C12 witness: an upload and another operation completed, then the submit
\* click, the grace period and accept().
C12_Witness ==
    /\ Done
    /\ Len(ops) = 2
    /\ ops[1].action = "upload"
    /\ \E c \in Calls : pageLog[c].call = "accept" /\ pageLog[c].ok

\* C13 (as claimed): no exception leaves tool.handle towards the call-tool
\* request handler, whatever the request.
C13_NoExceptionLeavesHandler ==
    /\ exception = ""
    /\ pc \notin {"thrown", "caught"}

LoginDone == lpc = "done"

LoginCalls == DOMAIN loginLog

Issued(c, ok) == \E k \in LoginCalls : loginLog[k] = LCall(c, ok)

\* C14: when the username or the password is missing, login creates no tab,
\* issues no call to a page and ends with the configuration error.
C14_MissingCredentialsFailFast ==
    (toolName = LoginName /\ (~hasUsername \/ ~hasPassword)) =>
        /\ loginLog = <<>>
        /\ site = "blank"
        /\ lpc \in {"start", "done"}
        /\ LoginDone => loginResult = ConfigError

\* C14 witness: login ended with the username set and the password missing.
C14_Witness ==
    /\ LoginDone
    /\ hasUsername
    /\ ~hasPassword
    /\ loginResult.isError

\* A call whose outcome does not depend on the affordances was rejected.
PageFailed ==
    \E k \in LoginCalls :
        /\ ~loginLog[k].ok
        /\ loginLog[k].call \in {"ensureTab", "goto_root", "goto_courses",
                                 "waitForSelector_body", "screenshot"}

\* C15 (as claimed): on a session that is already authenticated, login ends
\* with success and has neither filled the identity provider's fields nor
\* clicked its submit control.
C15_AuthenticatedSessionSucceedsWithoutFilling ==
    (LoginDone /\ hasUsername /\ hasPassword /\ alreadyAuthenticated
               /\ ~PageFailed) =>
        /\ loginResult = LoginSuccess
        /\ \A k \in LoginCalls :
               loginLog[k].call \notin {"fill_username", "fill_password",
                                        "click_login"}

\* The username field did not appear after the sign-in link was clicked.
UsernameMissingAfterSignIn ==
    \E k \in LoginCalls :
        /\ loginLog[k] = LCall("click_link", TRUE)
        /\ \E j \in LoginCalls :
               /\ j > k
               /\ ~loginLog[j].ok
               /\ loginLog[j].call \in {"isVisible_username",
                                        "waitForSelector_username"}

UrlNotReturned == Issued("waitForURL", FALSE)

\* The last probe for the post-login indicator failed.
IndicatorMissing ==
    \E k \in LoginCalls :
        /\ loginLog[k] = LCall("waitForSelector_body", FALSE)
        /\ \A j \in LoginCalls :
               j > k => loginLog[j].call # "waitForSelector_body"

\* C16 (as claimed): when a required probe or step of the handshake failed,
\* login ends with an error, never with success.
C16_SuccessOnlyAfterHandshake ==
    (LoginDone /\ (UsernameMissingAfterSignIn \/ UrlNotReturned
                   \/ IndicatorMissing)) =>
        loginResult.isError

\* C17 (as claimed): when login ends with success, the last navigation it
\* performed is the one to the courses page, where the session is.
C17_SuccessEndsOnCourses ==
    (LoginDone /\ loginResult = LoginSuccess) =>
        /\ site = "courses"
        /\ \E k \in LoginCalls :
               /\ loginLog[k] = LCall("goto_courses", TRUE)
               /\ \A j \in LoginCalls :
                      j > k => loginLog[j].call \notin
                                   {"goto_root", "click_link", "click_login"}

\* C18: on a stale snapshot no call on the page succeeds, so no submit click
\* is performed, and the run ends with the error of the first failing
\* locator call, never with a status.
C18_StaleSnapshotFails ==
    stale =>
        /\ \A c \in Calls : ~pageLog[c].ok
        /\ result.kind # "status"
        /\ Done => /\ result.isError
                   /\ result.error = "PageError"
                   /\ Len(pageLog) = 1

\* C18 witness: a request of two operations succeeded, was sent again and
\* failed.
C18_Witness ==
    /\ stale
    /\ Done
    /\ Len(ops) = 2

\* C19 (as claimed): when the result is a value-shape error, no call has
\* been issued to the page.
C19_ValidationBeforeInteraction ==
    (Done /\ result.kind = "error"
          /\ result.error \in {"InvalidType", "InvalidSelect", "InvalidUpload"})
        => pageLog = <<>>

\* C20: with a tab that holds no snapshot the run ends at the check: the
\* result is the 'no snapshot' error, no call is issued to the page, the
\* register is not read and still holds the last dialog the page raised.
C20_NoSnapshotFailsFirst ==
    (paramsValid /\ hasTab /\ ~hasSnapshot) =>
        /\ pc \in {"start", "done"}
        /\ pageLog = <<>>
        /\ pendingDialog = NoDialog
        /\ tabPendingDialog.id = dialogsRaised
        /\ Done => result.isError /\ result.error = "NoSnapshot"

\* C20 witness: a request of two operations ended on a tab without snapshot
\* while a dialog was in the register.
C20_Witness ==
    /\ paramsValid /\ hasTab /\ ~hasSnapshot
    /\ Done
    /\ Len(ops) = 2
    /\ tabPendingDialog # NoDialog

-----------------------------------------------------------------------------
(* C21..C30 *)

\* C21 (as claimed): a request with an empty operations list ends without
\* error when the dialog read after the submit click contains an accepted
\* phrase.
C21_EmptyOperationsSucceed ==
    (Done /\ paramsValid /\ ops = <<>> /\ SubmitClicked /\ ArbitratedDialog
          /\ ContainsAccepted(pendingDialog.msg))
        => ~result.isError

\* C21 (amended): a request with an empty operations list is not rejected:
\* the first call on the page is the click on the submit target, and the run
\* ends without error when the dialog read after it contains an accepted
\* phrase and accept() on it does not throw.
C21_EmptyOperationsSucceedIfAcceptResolves ==
    (paramsValid /\ hasTab /\ hasSnapshot /\ ops = <<>>) =>
        /\ pageLog # <<>> =>
               /\ pageLog[1].call = "click"
               /\ pageLog[1].idx = SubmitIdx
               /\ pageLog[1].ref = submitButtonRef
        /\ Done => pageLog # <<>>
        /\ (Done /\ ArbitratedDialog /\ ContainsAccepted(pendingDialog.msg)
                 /\ ~AcceptThrew)
               => ~result.isError /\ result.kind = "status"

\* C21 witness: a request with no operations ended with the success status
\* after its dialog was accepted.
C21_Witness ==
    /\ Done
    /\ paramsValid
    /\ ops = <<>>
    /\ ~result.isError
    /\ result.kind = "status"
    /\ \E c \in Calls : pageLog[c].call = "accept" /\ pageLog[c].ok

\* The tools a server restricted to core must not list.
NonCoreNames ==
    {"browser_tab_list", "browser_tab_new", "browser_tab_select",
     "browser_tab_close", "browser_wait", "browser_navigate_back",
     "browser_navigate_forward"}

CoreOnly == [defined |-> TRUE, list |-> {"core"}]

\* C23: a server created with the capability list ['core'] lists none of the
\* tab, wait and history tools, and lists every tool whose capability is
\* core, in snapshot mode and in vision mode.
C23_CoreFilterDropsNonCore ==
    (listed.done /\ capabilities = CoreOnly) =>
        /\ listed.names \cap NonCoreNames = {}
        /\ \A k \in DOMAIN allTools(vision) :
               allTools(vision)[k].capability = "core"
                   => allTools(vision)[k].name \in listed.names

\* C23 witness: the tools of a snapshot-mode server restricted to core were
\* listed.
C23_Witness ==
    /\ listed.done
    /\ capabilities = CoreOnly
    /\ ~vision
    /\ "submit_assignment" \in listed.names

\* C24 (as claimed): a snapshot-mode server without capability filter lists
\* exactly the fifteen tool names of the test.
C24_SnapshotToolList ==
    (listed.done /\ ~vision /\ capabilities = NoFilter) =>
        listed.names =
            {"browser_close", "browser_wait", "browser_navigate",
             "browser_navigate_back", "browser_navigate_forward",
             "browser_snapshot", "browser_tab_list", "browser_tab_new",
             "browser_tab_select", "browser_tab_close",
             "loginToIniadMoocsWithIniadAccount", "listLectureLinks",
             "listSlideLinks", "listCourses", "submit_assignment"}

\* C25 (as claimed): a vision-mode server without capability filter lists
\* exactly the thirteen tool names of the test, without browser_snapshot and
\* without submit_assignment.
C25_VisionToolList ==
    (listed.done /\ vision /\ capabilities = NoFilter) =>
        listed.names =
            {"browser_close", "browser_wait", "browser_navigate",
             "browser_navigate_back", "browser_navigate_forward",
             "browser_tab_list", "browser_tab_new", "browser_tab_select",
             "browser_tab_close", "loginToIniadMoocsWithIniadAccount",
             "listLectureLinks", "listSlideLinks", "listCourses"}

\* The calls that probe for an affordance of the handshake.
ProbeCalls ==
    {"isVisible_link", "waitFor_link", "isVisible_username",
     "waitForSelector_username", "waitForSelector_body"}

\* C26 (as claimed): the bound of the wait for the redirect back to the
\* platform is strictly longer than the bound of every affordance probe of
\* the run.
C26_RedirectBoundLonger ==
    \A k \in LoginCalls : \A j \in LoginCalls :
        (loginLog[k].call = "waitForURL" /\ loginLog[j].call \in ProbeCalls)
            => loginLog[k].timeout > loginLog[j].timeout

\* C27: in a login run the root page is loaded before any probe or fill;
\* the username is filled right after the username field was seen visible;
\* the password fill, the click on LOG IN, the wait for the platform URL and
\* the wait for the indicator follow, each right after the one before
\* resolved.
C27_HandshakeOrder ==
    /\ \A k \in LoginCalls :
           loginLog[k].call \in ProbeCalls \cup {"fill_username", "click_link"}
               => \E j \in 1..(k - 1) : loginLog[j] = LCall("goto_root", TRUE)
    /\ \A k \in LoginCalls :
           loginLog[k].call = "fill_username" =>
               /\ k > 1
               /\ loginLog[k - 1].call \in {"isVisible_username",
                                            "waitForSelector_username"}
               /\ loginLog[k - 1].ok
    /\ \A k \in LoginCalls :
           /\ loginLog[k].call = "fill_password"
                  => loginLog[k - 1] = LCall("fill_username", TRUE)
           /\ loginLog[k].call = "click_login"
                  => loginLog[k - 1] = LCall("fill_password", TRUE)
           /\ loginLog[k].call = "waitForURL"
                  => loginLog[k - 1] = LCall("click_login", TRUE)
           /\ (loginLog[k] = LCall("waitForURL", TRUE) /\ k < Len(loginLog))
                  => loginLog[k + 1].call = "waitForSelector_body"

\* C27 witness: a run of the probing revision went through the whole
\* handshake and ended with success.
C27_Witness ==
    /\ LoginDone
    /\ loginVariant = "part_006"
    /\ Issued("fill_username", TRUE)
    /\ Issued("waitForURL", TRUE)
    /\ loginResult = LoginSuccess

\* C28: under fair progress of the handler's awaited calls and timers, every
\* submit_assignment call that started ends with a result, whatever the page
\* does.
C28_RunTerminates ==
    (pc = "start") ~> (pc \in {"done", "caught"} /\ result # NoResult)

\* C28 witness: a run of two operations whose file chooser never appeared
\* has ended.
C28_Witness ==
    /\ Done
    /\ Len(ops) = 2
    /\ result # NoResult
    /\ result.error = "FileChooserTimeout"

\* The calls steps 1..k leave on the page when each of them completed.
RECURSIVE CompletedCalls(_)
CompletedCalls(k) ==
    IF k = 0 THEN <<>>
    ELSE CompletedCalls(k - 1) \o
         ( IF ops[k].action = "upload"
           THEN << Call("click", ops[k].ref, <<>>, k, TRUE),
                   Call("setFiles", "fileChooser", filePaths(ops[k]), k, TRUE) >>
           ELSE << Call(Method(ops[k]), ops[k].ref, Argument(ops[k]), k, TRUE) >> )

\* C29: when a run ends with an error at step i, the calls of the steps
\* before i are on the page as they were applied, in order and with the
\* caller's values, and whatever follows them belongs to step i or a later
\* one: nothing is issued to undo a completed step.
C29_NoCompensationOnAbort ==
    (Done /\ result.kind = "error") =>
        LET done == CompletedCalls(i - 1) IN
        /\ Len(pageLog) >= Len(done)
        /\ SubSeq(pageLog, 1, Len(done)) = done
        /\ \A c \in (Len(done) + 1)..Len(pageLog) : pageLog[c].idx >= i

\* C29 witness: the second of two operations failed after the upload before
\* it had its file chosen.
C29_Witness ==
    /\ Done
    /\ result.kind = "error"
    /\ Len(ops) = 2
    /\ failedAt = 2
    /\ ops[1].action = "upload"
    /\ \E c \in Calls : pageLog[c].call = "setFiles" /\ pageLog[c].ok

\* The accept() and dismiss() calls issued on dialog d by any call of the
\* session.
Attempts(d) ==
    Cardinality({c \in 1..Len(pageLog) :
                    pageLog[c].call = "accept" /\ pageLog[c].dlg = d})
    + Cardinality({c \in 1..Len(sessionLog) : sessionLog[c].dlg = d})

\* C22 (as claimed): on a session on which browser_handle_dialog and
\* submit_assignment calls interleave, a dialog that was accepted or
\* dismissed has had that one accept() or dismiss() call and no other, and
\* is no longer in the register.
C22_EachDialogConsumedOnce ==
    \A d \in 1..dialogsRaised :
        Consumed([id |-> d]) =>
            /\ Attempts(d) = 1
            /\ tabPendingDialog.id # d

\* C30: nothing serialises the runs of a session (a second request starts
\* whatever the first run is doing), and a run's verdict depends only on
\* the register as it reads it, whichever run's click raised the dialog:
\* an empty register is the error, a dialog of accepted text whose accept()
\* resolves is the success.
C30_RunsShareRegister ==
    /\ otherPc = "start" => ENABLED OtherHandle
    /\ (otherPc = "done" /\ otherResult.kind = "status") =>
           otherResult.isError =
               ( \/ otherPendingDialog = NoDialog
                 \/ Unexpected(otherPendingDialog.msg)
                 \/ \E c \in 1..Len(sessionLog) :
                        sessionLog[c].by = "other" /\ ~sessionLog[c].ok )
    /\ (Done /\ result.kind = "status") =>
           result.isError =
               ( \/ pendingDialog = NoDialog
                 \/ Unexpected(pendingDialog.msg)
                 \/ AcceptThrew )

\* C30 witness: the first run's click raised a dialog, the second run
\* accepted it and returned success, and the first run found the register
\* empty and returned the error.
C30_Witness ==
    /\ Done
    /\ otherPc = "done"
    /\ ~otherResult.isError
    /\ <<otherPendingDialog.id, "first">> \in owners
    /\ pendingDialog = NoDialog
    /\ result.isError
    /\ result.kind = "status"

-----------------------------------------------------------------------------
(* C31..C40 *)

\* The handler has not yet clicked the submit button.
BeforeSubmitClick == pc \in {"start", "loop", "upl_click", "upl_await"}

\* The run returned the status without the error flag after arbitrating
\* dialog d.
ConfirmedBy(d) ==
    /\ Done
    /\ result.kind = "status"
    /\ ~result.isError
    /\ pendingDialog.id = d

\* C31: a dialog that is in the register while the handler has not yet
\* clicked the submit button is never the dialog by which the run returns
\* isError false.
C31_StaleDialogNeverConfirms ==
    \A d \in 1..MaxDialogs :
        [](BeforeSubmitClick /\ tabPendingDialog.id = d => [](~ConfirmedBy(d)))

\* C32: when the run has returned, the file chooser listener it armed is
\* neither still waiting nor rejected without anyone awaiting it.
C32_NoListenerLeftBehind ==
    pc \in {"done", "caught"} => listener \notin {"armed", "rejected"}

\* The operation at position k is a click, check or uncheck that carries a
\* value.
ValueOnValueless(k) ==
    /\ ops[k].action \in {"click", "check", "uncheck"}
    /\ ops[k].value # Undefined

\* C33: no call is issued to the page for a click, check or uncheck
\* operation that carries a value, and no line reports it as performed.
C33_ValueOnClickRejected ==
    /\ \A c \in Calls :
           pageLog[c].idx \in 1..Len(ops) => ~ValueOnValueless(pageLog[c].idx)
    /\ (pc = "loop" /\ i > 1) => ~ValueOnValueless(i - 1)

\* The operation at position k is an upload whose value is absent, the empty
\* string or the empty sequence of paths.
EmptyUpload(k) ==
    /\ ops[k].action = "upload"
    /\ ops[k].value \in {Undefined, Str(""), Arr(<<>>)}

\* C34: for an upload whose value is empty the listener is never armed, no
\* call is issued to the page, and the run ends with the invalid-value error
\* when it reaches the operation.
C34_EmptyUploadRejected ==
    \A k \in 1..Len(ops) :
        EmptyUpload(k) =>
            /\ \A c \in Calls : pageLog[c].idx # k
            /\ ~(pc \in {"upl_click", "upl_await"} /\ i = k)
            /\ failedAt = k => result.error = "InvalidUpload"

\* The text of the result is the statusMessage of line 161, which opens with
\* 'Successfully performed N input operations, clicked the submit button'.
ReadsSuccessful(r) == r.kind = "status"

\* C35: a result that carries the error flag does not read as successful.
C35_ErrorNeverReadsSuccess ==
    result.isError => ~ReadsSuccessful(result)

\* The accept and dismiss calls a browser_handle_dialog call issued.
HandleDialogCalls ==
    SelectSeq(sessionLog, LAMBDA c : c.by = "handle_dialog")

\* C36: a browser_handle_dialog call that finds the register empty returns
\* the 'No dialog visible' error and issues no call; one that finds a dialog
\* issues exactly one call on it, accept when accept is true and dismiss
\* otherwise, and the step by which it returns, with or without a failure,
\* leaves the register empty.
C36_HandleDialogClearsRegister ==
    [][ /\ (hdPc = "start" /\ hdPc' = "done") =>
               /\ tabPendingDialog = NoDialog
               /\ hdResult' = [isError |-> TRUE, text |-> "No dialog visible"]
               /\ sessionLog' = sessionLog
        /\ (hdPc = "settling" /\ hdPc' = "done") =>
               /\ hdDialog # NoDialog
               /\ Len(HandleDialogCalls') = 1
               /\ HandleDialogCalls'[1].call =
                      (IF hdAccept THEN "accept" ELSE "dismiss")
               /\ HandleDialogCalls'[1].dlg = hdDialog.id
               /\ hdResult'.isError = ~HandleDialogCalls'[1].ok
               /\ tabPendingDialog' = NoDialog ]_vars

\* The last call dialogHandler issued.
LastAlertCall == alertLog[Len(alertLog)]

MismatchResult == [isError |-> TRUE, text |-> "Alert dialog text mismatch"]

TimeoutResult == [isError |-> TRUE, text |-> "Timeout"]

\* C37: the dialog raised while the listener is armed is the one the call
\* decides on; the call issued on it is accept exactly when its message
\* contains expected_text and dismiss otherwise; the call returns the
\* non-error result after an accept that resolved, the text-mismatch error
\* after a dismiss that resolved, and the timeout error when the timer fired
\* with no dialog seen.
C37_AcceptsIffTextMatches ==
    [][ /\ (alertListener = "armed" /\ dialogsRaised' > dialogsRaised) =>
               /\ alertDialog' = tabPendingDialog'
               /\ handlerPc' = "settling"
        /\ Len(alertLog') > Len(alertLog) =>
               /\ LastAlertCall'.dlg = alertDialog.id
               /\ LastAlertCall'.call =
                      ( IF Includes(alertDialog.msg, expectedText)
                        THEN "accept" ELSE "dismiss" )
        /\ (alertTimer = "armed" /\ alertTimer' = "fired") =>
               /\ ~dialogOccurred
               /\ alertResult' = TimeoutResult
        /\ (apc = "waiting" /\ apc' = "done") =>
               \/ /\ ~alertResult'.isError
                  /\ Includes(alertDialog.msg, expectedText)
                  /\ LastAlertCall'.call = "accept" /\ LastAlertCall'.ok
               \/ /\ alertResult' = MismatchResult
                  /\ ~Includes(alertDialog.msg, expectedText)
                  /\ LastAlertCall'.call = "dismiss" /\ LastAlertCall'.ok
               \/ /\ alertResult' = TimeoutResult
                  /\ alertDialog = NoDialog
                  /\ alertLog' = <<>> ]_vars

\* C37 witness: a dialog raised before the call was left alone, the dialog
\* raised during the wait carried the expected text inside a longer message,
\* was accepted, and the call returned without the error flag.
C37_Witness ==
    /\ apc = "done"
    /\ ~alertResult.isError
    /\ alertDialog.id = 2
    /\ expectedText = expectedEN
    /\ alertDialog.msg # expectedText
    /\ alertLog = <<[call |-> "accept", dlg |-> 2, ok |-> TRUE]>>

\* The three outcomes of a call that armed its timer.
Outcome(o) ==
    CASE o = "accepted" ->
            /\ alertResult = Confirmed
            /\ alertTimer = "cleared"
            /\ Len(alertLog) = 1
            /\ LastAlertCall.call = "accept" /\ LastAlertCall.ok
      [] o = "mismatch" ->
            /\ alertResult = MismatchResult
            /\ alertTimer = "cleared"
            /\ Len(alertLog) = 1
            /\ LastAlertCall.call = "dismiss" /\ LastAlertCall.ok
      [] OTHER ->
            /\ alertResult = TimeoutResult
            /\ alertTimer = "fired"
            /\ alertLog = <<>>

\* C38: the call accepts or dismisses at most one dialog; a result exists
\* only once the call returned; and when it returned, exactly one of the
\* three outcomes was produced and neither the timer nor the listener is
\* armed.
C38_OneOutcomePerCall ==
    /\ Len(alertLog) <= 1
    /\ alertResult # NoAlertResult => apc \in {"done", "caught"}
    /\ apc = "done" =>
           /\ alertTimer # "armed"
           /\ alertListener # "armed"
           /\ Cardinality({o \in {"accepted", "mismatch", "timeout"} :
                               Outcome(o)}) = 1

\* C38 witness: the call returned after accepting a dialog, and the page
\* raised another dialog afterwards, which the call did not touch.
C38_Witness ==
    /\ apc = "done"
    /\ Outcome("accepted")
    /\ dialogsRaised > alertDialog.id
    /\ tabPendingDialog.id > alertDialog.id

\* C39: under fair progress of the timer and of the awaited dialog call,
\* every confirm_submission_alert call that started returns a result.
C39_AlertCallReturns ==
    (apc = "start") ~> (apc \in {"done", "caught"} /\ alertResult # NoAlertResult)

\* How many times close() was called on server s.
CloseCount(s) ==
    Cardinality({k \in 1..Len(listLog) : s \in listLog[k].closed})

\* C40: the last call, when it is close(server), closed that server and left
\* it out of the list; when it is closeAll, it closed every server in the
\* list; and no server has been closed more than once.
C40_ServersClosedOnce ==
    /\ listLog # <<>> =>
           LET last == listLog[Len(listLog)] IN
           /\ last.op = "close" =>
                  last.closed = {last.server} /\ last.server \notin InList
           /\ last.op = "closeAll" => last.closed = InList
    /\ \A s \in 1..MaxServers : CloseCount(s) <= 1

====
